---- MODULE Spec2Model ----
(***************************************************************************)
(* Verification model of botcitas-demo: the ConversationsManager state     *)
(* machine (modules/conversationsManager.js, listed in README.md) together *)
(* with the event wiring of the server.                                    *)
(*                                                                         *)
(* Conventions                                                             *)
(*  - A JavaScript string is a tuple of one-character strings, so that     *)
(*    includes / startsWith / toLowerCase / split are computed.            *)
(*  - A message is a record [type, chars]; type "string" carries chars,    *)
(*    type "number" is a non-string JSON value (its chars are empty).      *)
(*  - Instants are milliseconds since the model epoch, Sunday 2025-09-07   *)
(*    00:00 in the configured timezone; no DST change falls in the window. *)
(*  - slot.start / slot.end hold the instant that the ISO-8601 text of the *)
(*    code denotes (toISOString and moment(iso) are exact at millisecond   *)
(*    precision).                                                          *)
(*  - A history entry keeps its type; timestamp, content and metadata are  *)
(*    payload that the manager never reads back.                           *)
(***************************************************************************)
EXTENDS Integers, Sequences, FiniteSets, TLC

\* ------------------------------------------------------------------------
\* Bounds of the model
\* ------------------------------------------------------------------------
\* session ids in use
MaxSessions == 2
\* processMessage calls in one behaviour
MaxCalls == 4
\* steps of the clock in one behaviour
MaxTicks == 1
\* calls of the data manager in one behaviour
MaxDataCalls == 3
\* calls of processMessage by a client that books, starts over and books
\* again
MaxRebookCalls == 6
\* time that passes inside one call between its first and a later clock read
CallLatencyMs == 1
\* config.appointments.advanceBookingDays (the example configuration has 14)
AdvanceBookingDays == 2
\* Math.random() takes the values r / RandomDenominator
RandomDenominator == 2

\* ------------------------------------------------------------------------
\* Configuration (config/config.example.js)
\* ------------------------------------------------------------------------
sessionTimeout == 1800000
maxRetries == 3
slotDuration == 120
minAdvanceHours == 24
MaxSlotOptions == 10
ServerMaxSlots == 20
ServerDaysAhead == 7
MsPerMinute == 60 * 1000
MsPerHour == 60 * MsPerMinute
MsPerDay == 24 * MsPerHour
defaultLanguage == "es"

SessionIds == 1..MaxSessions

\* ------------------------------------------------------------------------
\* Strings
\* ------------------------------------------------------------------------
UpperChars ==
  <<"A","B","C","D","E","F","G","H","I","J","K","L","M","N","O","P","Q","R",
    "S","T","U","V","W","X","Y","Z","Í","Ñ","Ä","Ö","Ü">>
LowerChars ==
  <<"a","b","c","d","e","f","g","h","i","j","k","l","m","n","o","p","q","r",
    "s","t","u","v","w","x","y","z","í","ñ","ä","ö","ü">>

LowerChar(c) ==
  IF \E j \in 1..Len(UpperChars) : UpperChars[j] = c
    THEN LowerChars[CHOOSE j \in 1..Len(UpperChars) : UpperChars[j] = c]
    ELSE c

toLowerCase(s) == [i \in 1..Len(s) |-> LowerChar(s[i])]

includes(s, sub) ==
  \E i \in 0..(Len(s) - Len(sub)) : SubSeq(s, i + 1, i + Len(sub)) = sub

startsWith(s, prefix) ==
  Len(prefix) <= Len(s) /\ SubSeq(s, 1, Len(prefix)) = prefix

DigitChars == <<"0","1","2","3","4","5","6","7","8","9">>

DigitValue(c) == (CHOOSE j \in 1..10 : DigitChars[j] = c) - 1

RECURSIVE Number(_)
Number(s) ==
  IF s = <<>> THEN 0
  ELSE 10 * Number(SubSeq(s, 1, Len(s) - 1)) + DigitValue(s[Len(s)])

\* timeStr.split(':') : the pieces between the colons
RECURSIVE split(_)
split(s) ==
  IF \E i \in 1..Len(s) : s[i] = ":"
    THEN LET i == CHOOSE k \in 1..Len(s) :
                    s[k] = ":" /\ \A j \in 1..(k - 1) : s[j] # ":"
         IN <<SubSeq(s, 1, i - 1)>> \o split(SubSeq(s, i + 1, Len(s)))
    ELSE <<s>>

Pad2(n) == <<DigitChars[(n \div 10) + 1], DigitChars[(n % 10) + 1]>>

\* ------------------------------------------------------------------------
\* Calendar (moment in the configured timezone)
\* ------------------------------------------------------------------------
\* the model epoch: Sunday 2025-09-07, in a month of 30 days
Epoch == [dayOfMonth |-> 7, month |-> 9, daysInMonth |-> 30]

DayIndex(t) == t \div MsPerDay
StartOfDay(t) == DayIndex(t) * MsPerDay
day(t) == DayIndex(t) % 7
HourOf(t) == (t % MsPerDay) \div MsPerHour
MinuteOf(t) == (t % MsPerHour) \div MsPerMinute
DayOfMonth(t) ==
  IF Epoch.dayOfMonth + DayIndex(t) <= Epoch.daysInMonth
    THEN Epoch.dayOfMonth + DayIndex(t)
    ELSE Epoch.dayOfMonth + DayIndex(t) - Epoch.daysInMonth
MonthOf(t) ==
  IF Epoch.dayOfMonth + DayIndex(t) <= Epoch.daysInMonth
    THEN Epoch.month ELSE Epoch.month + 1

WeekdayNames ==
  << <<"S","u","n">>, <<"M","o","n">>, <<"T","u","e">>, <<"W","e","d">>,
     <<"T","h","u">>, <<"F","r","i">>, <<"S","a","t">> >>

FormatHHmm(t) == Pad2(HourOf(t)) \o <<":">> \o Pad2(MinuteOf(t))

\* ------------------------------------------------------------------------
\* Slots
\* ------------------------------------------------------------------------
T0900 == <<"0","9",":","0","0">>
T1100 == <<"1","1",":","0","0">>
T1300 == <<"1","3",":","0","0">>
T1500 == <<"1","5",":","0","0">>
T1700 == <<"1","7",":","0","0">>

\* config.appointments.availableSlots : weekday -> daily start times
\* (0 = Sunday has no entry)
availableSlotsConfig == [d \in 1..6 |-> <<T0900>>]

\* config.appointments as the manager is constructed with it
appointmentsConfig ==
  [availableSlots |-> availableSlotsConfig,
   slotDuration |-> slotDuration,
   advanceBookingDays |-> AdvanceBookingDays,
   minAdvanceHours |-> minAdvanceHours]

\* generateSlotId : Math.random().toString(36).substr(2, 9), one draw per
\* pushed slot.  A draw sequence is named by a number; the k-th pushed slot
\* takes the k-th value of the sequence (sequence 2 repeats one value).
SlotIdDraws == {1}
generateSlotId(draw, k) ==
  IF draw = 1 /\ k % 2 = 0 THEN "p0m2zr81c" ELSE "k3x9qa7fd"

\* current.clone().hour(hour).minute(minute).second(0)
SetHourMinute(current, hour, minute) ==
  StartOfDay(current) + (hour * MsPerHour) + (minute * MsPerMinute)
    + (current % 1000)

\* availableTimes.forEach(...) : the slots array after one day of the cursor
RECURSIVE DaySlots(_, _, _, _, _, _)
DaySlots(config, availableTimes, current, now, draw, slots) ==
  IF availableTimes = <<>> THEN slots
  ELSE LET slotTime(parts) ==
             SetHourMinute(current, Number(parts[1]), Number(parts[2]))
           pushed(time) ==
             IF time > now + config.minAdvanceHours * MsPerHour
               THEN Append(slots,
                           [id |-> generateSlotId(draw, Len(slots) + 1),
                            start |-> time,
                            end |-> time + config.slotDuration * MsPerMinute,
                            available |-> TRUE])
               ELSE slots
       IN DaySlots(config, Tail(availableTimes), current, now, draw,
                   pushed(slotTime(split(Head(availableTimes)))))

\* while (current.isBefore(maxDate)) { ... current.add(1, 'day') }
\* (Len(slots) >= 0 holds of every array; stating it here has the array of
\* the previous iteration evaluated before the next one starts)
RECURSIVE SlotLoop(_, _, _, _, _, _)
SlotLoop(config, current, maxDate, now, draw, slots) ==
  IF Len(slots) >= 0 /\ current < maxDate
    THEN SlotLoop(config, current + MsPerDay, maxDate, now, draw,
                  IF day(current) \in DOMAIN config.availableSlots
                    THEN DaySlots(config, config.availableSlots[day(current)],
                                  current, now, draw, slots)
                    ELSE slots)
    ELSE slots

\* generateAvailableSlots of a manager whose config.appointments is config
generateAvailableSlotsWith(config, now, draw) ==
  LET maxDate == now + config.advanceBookingDays * MsPerDay
      current == now + config.minAdvanceHours * MsPerHour
      slice(slots) ==
        SubSeq(slots, 1, IF Len(slots) < MaxSlotOptions THEN Len(slots)
                                                         ELSE MaxSlotOptions)
  IN slice(SlotLoop(config, current, maxDate, now, draw, <<>>))

generateAvailableSlots(now, draw) ==
  generateAvailableSlotsWith(appointmentsConfig, now, draw)

\* The server's generateAvailableSlots (behind GET /api/slots).
\* daySlots.forEach(...) : the slots array after one day
RECURSIVE ServerDaySlots(_, _, _, _)
ServerDaySlots(config, daySlots, date, slots) ==
  IF daySlots = <<>> THEN slots
  ELSE LET \* startTime.setHours(hour, minute, 0, 0)
           startTime(parts) ==
             StartOfDay(date) + (Number(parts[1]) * MsPerHour)
               + (Number(parts[2]) * MsPerMinute)
           pushed(time) ==
             Append(slots,
                    [id |-> <<"slot_", time>>,
                     start |-> time,
                     end |-> time + config.slotDuration * 60 * 1000,
                     available |-> TRUE])
       IN ServerDaySlots(config, Tail(daySlots), date,
                         pushed(startTime(split(Head(daySlots)))))

\* for (let i = 1; i <= 7; i++) { ... }
RECURSIVE ServerSlotLoop(_, _, _, _)
ServerSlotLoop(config, i, now, slots) ==
  IF i <= ServerDaysAhead
    THEN LET date == now + i * 24 * 60 * 60 * 1000
         IN ServerSlotLoop(config, i + 1, now,
                           IF day(date) \in DOMAIN config.availableSlots
                             THEN ServerDaySlots(config,
                                                 config.availableSlots[day(date)],
                                                 date, slots)
                             ELSE slots)
    ELSE slots

serverGenerateAvailableSlots(config, now) ==
  LET slice(slots) ==
        SubSeq(slots, 1, IF Len(slots) < ServerMaxSlots THEN Len(slots)
                                                         ELSE ServerMaxSlots)
  IN slice(ServerSlotLoop(config, 1, now, <<>>))

formatSlotForDisplay(slot, language) ==
  LET sep == IF language = "de" THEN "." ELSE "/"
  IN WeekdayNames[day(slot.start) + 1] \o <<" ">>
       \o Pad2(DayOfMonth(slot.start)) \o <<sep>> \o Pad2(MonthOf(slot.start))
       \o <<" ">> \o FormatHHmm(slot.start) \o <<"-">> \o FormatHHmm(slot.end)

\* Array.prototype.find : the first slot whose display matches, or <<>>
RECURSIVE findSlotByDisplay(_, _, _)
findSlotByDisplay(displayText, availableSlots, language) ==
  IF availableSlots = <<>> THEN <<>>
  ELSE LET matches(display) ==
             includes(displayText, display) \/ includes(display, displayText)
       IN IF matches(formatSlotForDisplay(Head(availableSlots), language))
            THEN <<Head(availableSlots)>>
            ELSE findSlotByDisplay(displayText, Tail(availableSlots), language)

\* ------------------------------------------------------------------------
\* Messages
\* ------------------------------------------------------------------------
Str(chars) == [type |-> "string", chars |-> chars]
NumberMessage == [type |-> "number", chars |-> <<>>]
\* a payload without a message: the value undefined
UndefinedMessage == [type |-> "undefined", chars |-> <<>>]
IsString(message) == message.type = "string"

S_start == <<"/","s","t","a","r","t">>
S_Espanol == <<"E","s","p","a","ñ","o","l">>
S_Deutsch == <<"D","e","u","t","s","c","h">>
S_English == <<"E","n","g","l","i","s","h">>
S_ACEPTO == <<"A","C","E","P","T","O">>
S_JA == <<"J","A">>
S_YES == <<"Y","E","S">>
S_borrar == <<"/","b","o","r","r","a","r">>
S_daten_loeschen ==
  <<"/","d","a","t","e","n","_","l","o","e","s","c","h","e","n">>
S_delete == <<"/","d","e","l","e","t","e">>
S_borrar_datos == S_borrar \o <<"_","d","a","t","o","s">>
S_delete_data == S_delete \o <<"_","d","a","t","a">>
S_Si == <<"S","í">>
S_Ja == <<"J","a">>
S_Yes == <<"Y","e","s">>
S_No == <<"N","o">>
S_Nein == <<"N","e","i","n">>
S_Otra_hora == <<"O","t","r","a"," ","h","o","r","a">>
S_Andere_Zeit == <<"A","n","d","e","r","e"," ","Z","e","i","t">>
S_Other_time == <<"O","t","h","e","r"," ","t","i","m","e">>
S_Cancelar == <<"C","a","n","c","e","l","a","r">>
S_Abbrechen == <<"A","b","b","r","e","c","h","e","n">>
S_Cancel == <<"C","a","n","c","e","l">>
S_Bell == "U+1F514"
S_Finalizar == <<"F","i","n","a","l","i","z","a","r">>
S_Fertig == <<"F","e","r","t","i","g">>
S_Ver_estado == <<"V","e","r"," ","e","s","t","a","d","o">>
S_Cambiar_fecha == <<"C","a","m","b","i","a","r"," ","f","e","c","h","a">>
S_Cambiar_hora == <<"C","a","m","b","i","a","r"," ","h","o","r","a">>
S_Datum_aendern == <<"D","a","t","u","m"," ","ä","n","d","e","r","n">>
S_Uhrzeit_aendern == <<"U","h","r","z","e","i","t"," ","ä","n","d","e","r","n">>
S_Stornieren == <<"S","t","o","r","n","i","e","r","e","n">>
S_Status_pruefen == <<"S","t","a","t","u","s"," ","p","r","ü","f","e","n">>
S_Change_date == <<"C","h","a","n","g","e"," ","d","a","t","e">>
S_Change_time == <<"C","h","a","n","g","e"," ","t","i","m","e">>
S_Check_status == <<"C","h","e","c","k"," ","s","t","a","t","u","s">>

\* ------------------------------------------------------------------------
\* Localisation tables and keyword classification
\* ------------------------------------------------------------------------
LanguageLabels == <<S_Espanol, S_Deutsch, S_English>>

\* languageMap[message] : the language code, "" when there is no entry
languageMap(message) ==
  IF ~IsString(message) THEN ""
  ELSE IF message.chars = S_Espanol THEN "es"
  ELSE IF message.chars = S_Deutsch THEN "de"
  ELSE IF message.chars = S_English THEN "en"
  ELSE ""

quickReplies ==
  [consent |->
     [es |-> <<S_ACEPTO, S_borrar_datos>>,
      de |-> <<S_JA, S_daten_loeschen>>,
      en |-> <<S_YES, S_delete_data>>],
   confirmation |->
     [es |-> <<S_Si, S_Otra_hora, S_Cancelar>>,
      de |-> <<S_Ja, S_Andere_Zeit, S_Abbrechen>>,
      en |-> <<S_Yes, S_Other_time, S_Cancel>>],
   reminder |->
     [es |-> <<S_Si \o <<" ", S_Bell>>, S_No>>,
      de |-> <<S_Ja \o <<" ", S_Bell>>, S_Nein>>,
      en |-> <<S_Yes \o <<" ", S_Bell>>, S_No>>],
   management |->
     [es |-> <<S_Cambiar_fecha, S_Cambiar_hora, S_Cancelar, S_Ver_estado>>,
      de |-> <<S_Datum_aendern, S_Uhrzeit_aendern, S_Stornieren,
               S_Status_pruefen>>,
      en |-> <<S_Change_date, S_Change_time, S_Cancel, S_Check_status>>]]

getLocalizedQuickReplies(context, language) ==
  IF context \in DOMAIN quickReplies
    THEN (IF language \in DOMAIN quickReplies[context]
            THEN quickReplies[context][language]
            ELSE quickReplies[context]["es"])
    ELSE <<>>

\* getLocalizedMessage : the text is identified by its key
getLocalizedMessage(key, language) == key

some(words, text) == \E i \in 1..Len(words) : includes(text, toLowerCase(words[i]))

positiveWords ==
  [es |-> << <<"s","í">>, <<"s","i">>, <<"y","e","s">>,
             <<"a","c","e","p","t","o">>, <<"c","o","n","f","i","r","m","o">> >>,
   de |-> << <<"j","a">>, <<"y","e","s">>,
             <<"b","e","s","t","ä","t","i","g","e","n">> >>,
   en |-> << <<"y","e","s">>, <<"c","o","n","f","i","r","m">>,
             <<"a","c","c","e","p","t">> >>]

negativeWords ==
  [es |-> << <<"n","o">>, <<"c","a","n","c","e","l","a","r">>,
             <<"r","e","c","h","a","z","a","r">> >>,
   de |-> << <<"n","e","i","n">>, <<"a","b","b","r","e","c","h","e","n">> >>,
   en |-> << <<"n","o">>, <<"c","a","n","c","e","l">>,
             <<"r","e","j","e","c","t">> >>]

isPositiveResponse(chars, language) ==
  LET words == IF language \in DOMAIN positiveWords
                 THEN positiveWords[language] ELSE positiveWords["es"]
  IN some(words, toLowerCase(chars))

isNegativeResponse(chars, language) ==
  LET words == IF language \in DOMAIN negativeWords
                 THEN negativeWords[language] ELSE negativeWords["es"]
  IN some(words, toLowerCase(chars))

ActionOrder == <<"reschedule", "cancel", "status", "complete">>

actions ==
  [es |->
     [reschedule |-> << <<"c","a","m","b","i","a","r">>,
                        <<"r","e","p","r","o","g","r","a","m","a","r">>,
                        <<"f","e","c","h","a">>, <<"h","o","r","a">> >>,
      cancel |-> << <<"c","a","n","c","e","l","a","r">>,
                    <<"e","l","i","m","i","n","a","r">> >>,
      status |-> << <<"e","s","t","a","d","o">>, <<"v","e","r">>,
                    <<"c","o","n","s","u","l","t","a","r">> >>,
      complete |-> << <<"c","o","m","p","l","e","t","a","r">>,
                      <<"f","i","n","a","l","i","z","a","r">>,
                      <<"t","e","r","m","i","n","a","r">> >>],
   de |->
     [reschedule |-> << <<"ä","n","d","e","r","n">>, <<"d","a","t","u","m">>,
                        <<"u","h","r","z","e","i","t">> >>,
      cancel |-> << <<"s","t","o","r","n","i","e","r","e","n">>,
                    <<"a","b","b","r","e","c","h","e","n">> >>,
      status |-> << <<"s","t","a","t","u","s">>, <<"p","r","ü","f","e","n">> >>,
      complete |-> << <<"b","e","e","n","d","e","n">>,
                      <<"f","e","r","t","i","g">> >>],
   en |->
     [reschedule |-> << <<"c","h","a","n","g","e">>,
                        <<"r","e","s","c","h","e","d","u","l","e">>,
                        <<"d","a","t","e">>, <<"t","i","m","e">> >>,
      cancel |-> << <<"c","a","n","c","e","l">>, <<"d","e","l","e","t","e">> >>,
      status |-> << <<"s","t","a","t","u","s">>, <<"c","h","e","c","k">> >>,
      complete |-> << <<"c","o","m","p","l","e","t","e">>,
                      <<"f","i","n","i","s","h">> >>]]

\* the first action, in table order, one of whose keywords occurs; "" if none
parseManagementAction(chars, language) ==
  LET hit(keywords, msgLower) ==
        \E k \in 1..Len(keywords) : includes(msgLower, keywords[k])
      first(langActions, msgLower) ==
        IF \E i \in 1..Len(ActionOrder) :
             hit(langActions[ActionOrder[i]], msgLower)
          THEN ActionOrder[CHOOSE i \in 1..Len(ActionOrder) :
                 /\ hit(langActions[ActionOrder[i]], msgLower)
                 /\ \A j \in 1..(i - 1) :
                      ~hit(langActions[ActionOrder[j]], msgLower)]
          ELSE ""
  IN first(IF language \in DOMAIN actions THEN actions[language]
                                          ELSE actions["es"],
           toLowerCase(chars))

\* ------------------------------------------------------------------------
\* Sessions
\* ------------------------------------------------------------------------
States ==
  {"INIT", "LANGUAGE_SELECTION", "CONSENT", "SLOT_SELECTION", "CONFIRMATION",
   "REMINDER_SETUP", "MANAGEMENT", "COMPLETED", "ERROR"}

\* session.context = {} ; a context is a function on the keys that are set
EmptyContext == [k \in {} |-> TRUE]
Put(context, key, value) ==
  [k \in (DOMAIN context) \cup {key} |-> IF k = key THEN value ELSE context[k]]

NoSlot == [id |-> "undefined", start |-> -1, end |-> -1, available |-> FALSE]
NoAppointmentId == [stamp |-> -1, suffix |-> "undefined"]
GetSlot(context) ==
  IF "selectedSlot" \in DOMAIN context THEN context.selectedSlot ELSE NoSlot
GetAppointmentId(context) ==
  IF "appointmentId" \in DOMAIN context THEN context.appointmentId
                                         ELSE NoAppointmentId

NewSession(sessionId, now) ==
  [id |-> sessionId,
   state |-> "INIT",
   language |-> defaultLanguage,
   startTime |-> now,
   lastActivity |-> now,
   context |-> EmptyContext,
   messageHistory |-> <<>>,
   retryCount |-> 0,
   completed |-> FALSE]

\* this.sessions : a Map, kept as the sequence of its values in insertion order
Has(store, sessionId) == \E i \in 1..Len(store) : store[i].id = sessionId
IndexOf(store, sessionId) == CHOOSE i \in 1..Len(store) : store[i].id = sessionId
Get(store, sessionId) == store[IndexOf(store, sessionId)]
Replace(store, session) ==
  [i \in 1..Len(store) |-> IF store[i].id = session.id THEN session ELSE store[i]]
Ids(store) == {store[i].id : i \in 1..Len(store)}

Event(name, sessionId) == [name |-> name, sessionId |-> sessionId]

push(history, type) == Append(history, [type |-> type])

\* variant: the boundary counts as expired
isSessionExpired_inclusive(session, now) ==
  (now - session.lastActivity) >= sessionTimeout
isSessionExpired(session, now) == (now - session.lastActivity) > sessionTimeout

\* ------------------------------------------------------------------------
\* Random draws
\* ------------------------------------------------------------------------
\* Math.random() = r / RandomDenominator
RandomValues == 0..(RandomDenominator - 1)
\* Math.random().toString(36).substr(2, 4).toUpperCase()
Suffixes == {"X7QA", "B2MK"}

generateAppointmentId(now, suffix) ==
  [stamp |-> now \div MsPerMinute, suffix |-> suffix]

\* Object.keys(technicians).filter(id => technicians[id].active)
RECURSIVE ActiveTechnicians(_)
ActiveTechnicians(techs) ==
  IF techs = <<>> THEN <<>>
  ELSE (IF Head(techs).active THEN <<Head(techs).id>> ELSE <<>>)
         \o ActiveTechnicians(Tail(techs))

\* variant: the choice is made among all technicians, active or not
assignTechnician_any(techs, r) ==
  LET index == (r * Len(techs)) \div RandomDenominator
  IN IF index + 1 \in DOMAIN techs THEN techs[index + 1].id ELSE "undefined"

assignTechnician(techs, r) ==
  LET at(active, index) ==
        IF index + 1 \in DOMAIN active THEN active[index + 1] ELSE "undefined"
      pick(active) == at(active, (r * Len(active)) \div RandomDenominator)
  IN pick(ActiveTechnicians(techs))

\* ------------------------------------------------------------------------
\* State handlers.  A handler yields the session as it leaves it, the events
\* it emitted, its response, and whether it raised an exception (the session
\* and events then hold what was done before the raise).
\* ------------------------------------------------------------------------
Response(bot, quick, state) == [bot |-> bot, quick |-> quick, state |-> state]
NoResponse == Response("", <<>>, "")
Done(session, events, response) ==
  [session |-> session, events |-> events, response |-> response,
   raised |-> FALSE]
Raise(session, events) ==
  [session |-> session, events |-> events, response |-> NoResponse,
   raised |-> TRUE]

Displays(slots, language) ==
  [i \in 1..Len(slots) |-> formatSlotForDisplay(slots[i], language)]

handleInit(session) ==
  Done([session EXCEPT !.state = "LANGUAGE_SELECTION"], <<>>,
       Response(getLocalizedMessage("welcome", session.language),
                LanguageLabels, "LANGUAGE_SELECTION"))

\* variant: a recognised language skips the consent step
handleLanguageSelection_skipConsent(session, message) ==
  IF languageMap(message) # ""
    THEN LET s1 == [session EXCEPT !.language = languageMap(message),
                                   !.state = "SLOT_SELECTION"]
         IN Done(s1, <<>>,
                 Response(getLocalizedMessage("consent", s1.language),
                          getLocalizedQuickReplies("consent", s1.language),
                          "SLOT_SELECTION"))
    ELSE Done(session, <<>>,
              Response(getLocalizedMessage("language_error", session.language),
                       LanguageLabels, "LANGUAGE_SELECTION"))

handleLanguageSelection(session, message) ==
  IF languageMap(message) # ""
    THEN LET s1 == [session EXCEPT !.language = languageMap(message),
                                   !.state = "CONSENT"]
         IN Done(s1, <<>>,
                 Response(getLocalizedMessage("consent", s1.language),
                          getLocalizedQuickReplies("consent", s1.language),
                          "CONSENT"))
    ELSE Done(session, <<>>,
              Response(getLocalizedMessage("language_error", session.language),
                       LanguageLabels, "LANGUAGE_SELECTION"))

handleDataDeletion(session) ==
  Done([session EXCEPT !.context = EmptyContext, !.messageHistory = <<>>],
       <<>>,
       Response(getLocalizedMessage("data_deleted", session.language),
                <<>>, "COMPLETED"))

handleConsent(session, message, now, draw) ==
  IF ~IsString(message) THEN Raise(session, <<>>)
  ELSE IF \/ includes(message.chars, S_ACEPTO)
          \/ includes(message.chars, S_JA)
          \/ includes(message.chars, S_YES)
    THEN LET offer(availableSlots) ==
               Done([session EXCEPT
                       !.state = "SLOT_SELECTION",
                       !.context = Put(Put(session.context, "consented", TRUE),
                                       "availableSlots", availableSlots)],
                    <<>>,
                    Response(getLocalizedMessage("choose_slot",
                                                 session.language),
                             Displays(availableSlots, session.language),
                             "SLOT_SELECTION"))
         IN offer(generateAvailableSlots(now, draw))
  ELSE IF \/ startsWith(message.chars, S_borrar)
          \/ startsWith(message.chars, S_daten_loeschen)
          \/ startsWith(message.chars, S_delete)
    THEN handleDataDeletion(session)
  ELSE Done(session, <<>>,
            Response(getLocalizedMessage("consent_required", session.language),
                     getLocalizedQuickReplies("consent", session.language),
                     "CONSENT"))

\* variant: the slot that is found is not kept in the context
handleSlotSelection_unkept(session, message) ==
  IF "availableSlots" \notin DOMAIN session.context THEN Raise(session, <<>>)
  ELSE IF session.context.availableSlots # <<>> /\ ~IsString(message)
    THEN Raise(session, <<>>)
  ELSE IF findSlotByDisplay(message.chars, session.context.availableSlots,
                            session.language) # <<>>
    THEN Done([session EXCEPT
                 !.context = [key \in DOMAIN session.context \ {"selectedSlot"}
                                |-> session.context[key]],
                 !.state = "CONFIRMATION"],
              <<>>,
              Response("chosen",
                       getLocalizedQuickReplies("confirmation",
                                                session.language),
                       "CONFIRMATION"))
  ELSE Done(session, <<>>,
            Response(getLocalizedMessage("invalid_slot", session.language),
                     Displays(session.context.availableSlots,
                              session.language),
                     "SLOT_SELECTION"))

handleSlotSelection(session, message) ==
  IF "availableSlots" \notin DOMAIN session.context THEN Raise(session, <<>>)
  ELSE IF session.context.availableSlots # <<>> /\ ~IsString(message)
    THEN Raise(session, <<>>)
  ELSE LET select(found) ==
             IF found # <<>>
               THEN Done([session EXCEPT
                            !.context = Put(session.context, "selectedSlot",
                                            found[1]),
                            !.state = "CONFIRMATION"],
                         <<>>,
                         Response("chosen",
                                  getLocalizedQuickReplies("confirmation",
                                                           session.language),
                                  "CONFIRMATION"))
               ELSE Done(session, <<>>,
                         Response(getLocalizedMessage("invalid_slot",
                                                      session.language),
                                  Displays(session.context.availableSlots,
                                           session.language),
                                  "SLOT_SELECTION"))
       IN select(findSlotByDisplay(message.chars,
                                   session.context.availableSlots,
                                   session.language))

handleConfirmation(session, message, now, suffix, r, techs) ==
  IF ~IsString(message) THEN Raise(session, <<>>)
  ELSE IF isPositiveResponse(message.chars, session.language)
    THEN LET s1(appointmentId, assignedTechnician) ==
               [session EXCEPT
                  !.state = "REMINDER_SETUP",
                  !.context =
                     Put(Put(Put(session.context, "confirmed", TRUE),
                             "appointmentId", appointmentId),
                         "technician", assignedTechnician)]
             ev(appointmentId, assignedTechnician) ==
               [name |-> "appointmentCreated",
                id |-> appointmentId,
                sessionId |-> session.id,
                slot |-> GetSlot(session.context),
                technician |-> assignedTechnician,
                language |-> session.language,
                timestamp |-> now]
             confirm(appointmentId, assignedTechnician) ==
               \* formatAppointmentConfirmation reads selectedSlot.start
               IF "selectedSlot" \notin DOMAIN session.context
                 THEN Raise(s1(appointmentId, assignedTechnician),
                            <<ev(appointmentId, assignedTechnician)>>)
                 ELSE Done(s1(appointmentId, assignedTechnician),
                           <<ev(appointmentId, assignedTechnician)>>,
                           Response("confirmed",
                                    getLocalizedQuickReplies("reminder",
                                                             session.language),
                                    "REMINDER_SETUP"))
         IN confirm(generateAppointmentId(now, suffix),
                    assignTechnician(techs, r))
  ELSE IF isNegativeResponse(message.chars, session.language)
    THEN LET s1 == [session EXCEPT !.state = "SLOT_SELECTION"]
         IN IF "availableSlots" \notin DOMAIN session.context
              THEN Raise(s1, <<>>)
              ELSE Done(s1, <<>>,
                        Response(getLocalizedMessage("select_different_slot",
                                                     session.language),
                                 Displays(session.context.availableSlots,
                                          session.language),
                                 "SLOT_SELECTION"))
  ELSE Done(session, <<>>,
            Response(getLocalizedMessage("confirmation_required",
                                         session.language),
                     getLocalizedQuickReplies("confirmation", session.language),
                     "CONFIRMATION"))

\* variant: the reminder is scheduled whatever the answer
handleReminderSetup_always(session, message) ==
  IF ~IsString(message) THEN Raise(session, <<>>)
  ELSE LET ev == [name |-> "reminderScheduled",
                  appointmentId |-> GetAppointmentId(session.context),
                  sessionId |-> session.id,
                  slot |-> GetSlot(session.context),
                  language |-> session.language]
           setup(wantsReminder) ==
             Done([session EXCEPT
                     !.context = Put(session.context, "reminderEnabled",
                                     wantsReminder),
                     !.state = "MANAGEMENT"],
                  <<ev>>,
                  Response(IF wantsReminder THEN "reminder_set"
                                            ELSE "no_reminder",
                           getLocalizedQuickReplies("management",
                                                    session.language),
                           "MANAGEMENT"))
       IN setup(isPositiveResponse(message.chars, session.language))

handleReminderSetup(session, message) ==
  IF ~IsString(message) THEN Raise(session, <<>>)
  ELSE LET ev == [name |-> "reminderScheduled",
                  appointmentId |-> GetAppointmentId(session.context),
                  sessionId |-> session.id,
                  slot |-> GetSlot(session.context),
                  language |-> session.language]
           setup(wantsReminder) ==
             Done([session EXCEPT
                     !.context = Put(session.context, "reminderEnabled",
                                     wantsReminder),
                     !.state = "MANAGEMENT"],
                  IF wantsReminder THEN <<ev>> ELSE <<>>,
                  Response(IF wantsReminder THEN "reminder_set"
                                            ELSE "no_reminder",
                           getLocalizedQuickReplies("management",
                                                    session.language),
                           "MANAGEMENT"))
       IN setup(isPositiveResponse(message.chars, session.language))

handleCompleted(session) ==
  Done(session,
       <<[name |-> "sessionCompleted", sessionId |-> session.id,
          session |-> session]>>,
       Response(getLocalizedMessage("session_complete", session.language),
                <<>>, "COMPLETED"))

handleManagement(session, message) ==
  IF ~IsString(message) THEN Raise(session, <<>>)
  ELSE LET manage(action) ==
             IF action = "reschedule"
               THEN Done(session, <<>>,
                         Response(getLocalizedMessage("reschedule_options",
                                                      session.language),
                                  getLocalizedQuickReplies("reschedule",
                                                           session.language),
                                  "MANAGEMENT"))
             ELSE IF action = "cancel"
               THEN Done(session, <<>>,
                         Response(getLocalizedMessage("cancel_confirm",
                                                      session.language),
                                  getLocalizedQuickReplies("cancel_confirm",
                                                           session.language),
                                  "MANAGEMENT"))
             ELSE IF action = "status"
               THEN Done(session, <<>>,
                         Response(getLocalizedMessage("status_info",
                                                      session.language),
                                  <<>>, "MANAGEMENT"))
             ELSE IF action = "complete"
               THEN handleCompleted([session EXCEPT !.state = "COMPLETED",
                                                    !.completed = TRUE])
             ELSE Done(session, <<>>,
                       Response(getLocalizedMessage("management_help",
                                                    session.language),
                                getLocalizedQuickReplies("management",
                                                         session.language),
                                "MANAGEMENT"))
       IN manage(parseManagementAction(message.chars, session.language))

handleError(session) ==
  LET s1 == [session EXCEPT !.retryCount = session.retryCount + 1]
  IN IF s1.retryCount >= maxRetries
       THEN Done([s1 EXCEPT !.state = "ERROR"],
                 <<Event("sessionFailed", session.id)>>,
                 Response(getLocalizedMessage("max_retries_exceeded",
                                              session.language),
                          <<>>, "ERROR"))
       ELSE Done(s1, <<>>,
                 Response(getLocalizedMessage("error_occurred",
                                              session.language),
                          getLocalizedQuickReplies("error_recovery",
                                                   session.language),
                          s1.state))

handleSessionTimeout(session) ==
  Done(session, <<>>,
       Response(getLocalizedMessage("session_timeout", session.language),
                <<>>, "COMPLETED"))

\* variant: the greeting handler is registered for ERROR
stateHandler_initOnError(session, message, now, draw, suffix, r, techs) ==
  CASE session.state = "INIT" -> handleInit(session)
    [] session.state = "LANGUAGE_SELECTION" ->
         handleLanguageSelection(session, message)
    [] session.state = "CONSENT" -> handleConsent(session, message, now, draw)
    [] session.state = "SLOT_SELECTION" -> handleSlotSelection(session, message)
    [] session.state = "CONFIRMATION" ->
         handleConfirmation(session, message, now, suffix, r, techs)
    [] session.state = "REMINDER_SETUP" -> handleReminderSetup(session, message)
    [] session.state = "MANAGEMENT" -> handleManagement(session, message)
    [] session.state = "COMPLETED" -> handleCompleted(session)
    [] session.state = "ERROR" -> handleInit(session)

\* this.stateHandlers.get(session.state)(session, message, metadata)
stateHandler(session, message, now, draw, suffix, r, techs) ==
  CASE session.state = "INIT" -> handleInit(session)
    [] session.state = "LANGUAGE_SELECTION" ->
         handleLanguageSelection(session, message)
    [] session.state = "CONSENT" -> handleConsent(session, message, now, draw)
    [] session.state = "SLOT_SELECTION" -> handleSlotSelection(session, message)
    [] session.state = "CONFIRMATION" ->
         handleConfirmation(session, message, now, suffix, r, techs)
    [] session.state = "REMINDER_SETUP" -> handleReminderSetup(session, message)
    [] session.state = "MANAGEMENT" -> handleManagement(session, message)
    [] session.state = "COMPLETED" -> handleCompleted(session)
    [] session.state = "ERROR" -> handleError(session)

\* ------------------------------------------------------------------------
\* processMessage
\* ------------------------------------------------------------------------
\* getSession(sessionId) with createIfNotExists = true : the store afterwards
getSession(store, sessionId, now) ==
  IF Has(store, sessionId) THEN store
                           ELSE Append(store, NewSession(sessionId, now))

\* The whole of processMessage.  now is the instant of the call; CallLatencyMs
\* have passed when isSessionExpired reads the clock again.  The result
\* holds the store afterwards, the events delivered in order, the response,
\* whether a handler raised and whether the call rejected to its caller.
processMessage(store, sessionId, message, now, draw, suffix, r, techs, listener) ==
  LET created == IF Has(store, sessionId) THEN <<>>
                 ELSE <<Event("sessionCreated", sessionId)>>
      processed == <<Event("messageProcessed", sessionId)>>
      bot(session) ==
        [session EXCEPT !.messageHistory = push(session.messageHistory, "bot")]
      \* the catch block once emit('error') has returned
      recovered(store1, out, err) ==
        [store |-> Replace(store1, err.session),
         emitted |-> created \o out.events \o <<Event("error", sessionId)>>
                     \o err.events,
         response |-> err.response,
         raised |-> TRUE, thrown |-> FALSE]
      \* after the state handler has run
      handled(store1, out) ==
        IF ~out.raised
          THEN [store |-> Replace(store1, bot(out.session)),
                emitted |-> created \o out.events \o processed,
                response |-> out.response,
                raised |-> FALSE, thrown |-> FALSE]
        ELSE IF ~listener
          \* emit('error') without a listener throws the error
          THEN [store |-> Replace(store1, out.session),
                emitted |-> created \o out.events,
                response |-> NoResponse,
                raised |-> TRUE, thrown |-> TRUE]
          ELSE recovered(store1, out, handleError(out.session))
      \* after the user entry has been pushed
      received(store1, s1) ==
        IF isSessionExpired(s1, now + CallLatencyMs)
          THEN [store |-> Replace(store1, s1),
                emitted |-> created,
                response |-> handleSessionTimeout(s1).response,
                raised |-> FALSE, thrown |-> FALSE]
          ELSE handled(store1,
                       stateHandler(s1, message, now, draw, suffix, r, techs))
      \* the '/start' branch once handleInit has run
      greeted(store1, out) ==
        [store |-> Replace(store1, bot(out.session)),
         emitted |-> created \o processed,
         response |-> out.response,
         raised |-> FALSE, thrown |-> FALSE]
      \* after lastActivity has been set
      entered(store1, s0) ==
        IF (IsString(message) /\ message.chars = S_start) \/ s0.state = "INIT"
          THEN greeted(store1, handleInit(s0))
          ELSE received(store1,
                        [s0 EXCEPT
                           !.messageHistory = push(s0.messageHistory, "user")])
      got(store1) ==
        entered(store1, [Get(store1, sessionId) EXCEPT !.lastActivity = now])
  IN got(getSession(store, sessionId, now))

\* processMessage up to the point where it suspends: the body runs without
\* interruption until 'await this.handleInit(...)' or 'await
\* stateHandler(...)', and the handler, an async function without an await
\* of its own, has run to its end by then.  A handler that raised has
\* rejected its promise: the catch block runs when the call resumes.  The
\* timeout branch returns without suspending.
processMessageSync(store, sessionId, message, now, draw, suffix, r, techs) ==
  LET created == IF Has(store, sessionId) THEN <<>>
                 ELSE <<Event("sessionCreated", sessionId)>>
      suspended(store1, out) ==
        [store |-> Replace(store1, out.session),
         emitted |-> created \o out.events,
         awaiting |-> TRUE, raised |-> out.raised, response |-> out.response]
      received(store1, s1) ==
        IF isSessionExpired(s1, now + CallLatencyMs)
          THEN [store |-> Replace(store1, s1),
                emitted |-> created,
                awaiting |-> FALSE, raised |-> FALSE,
                response |-> handleSessionTimeout(s1).response]
          ELSE suspended(store1,
                         stateHandler(s1, message, now, draw, suffix, r, techs))
      entered(store1, s0) ==
        IF (IsString(message) /\ message.chars = S_start) \/ s0.state = "INIT"
          THEN suspended(store1, handleInit(s0))
          ELSE received(store1,
                        [s0 EXCEPT
                           !.messageHistory = push(s0.messageHistory, "user")])
      got(store1) ==
        entered(store1, [Get(store1, sessionId) EXCEPT !.lastActivity = now])
  IN got(getSession(store, sessionId, now))

\* the rest of processMessage, run when the awaited promise has settled:
\* the bot entry is pushed on the session as it is by then and
\* messageProcessed is emitted, or the catch block runs
processMessageResume(store, sessionId, awaited, listener) ==
  LET bot(session) ==
        [session EXCEPT !.messageHistory = push(session.messageHistory, "bot")]
      recovered(err) ==
        [store |-> Replace(store, err.session),
         emitted |-> <<Event("error", sessionId)>> \o err.events,
         response |-> err.response, thrown |-> FALSE]
  IN IF ~awaited.raised
       THEN [store |-> Replace(store, bot(Get(store, sessionId))),
             emitted |-> <<Event("messageProcessed", sessionId)>>,
             response |-> awaited.response, thrown |-> FALSE]
     ELSE IF ~listener
       THEN [store |-> store, emitted |-> <<>>, response |-> NoResponse,
             thrown |-> TRUE]
       ELSE recovered(handleError(Get(store, sessionId)))

\* variant: the sweep announces the expired sessions and keeps them stored
cleanupExpiredSessions_emitOnly(store, now) ==
  LET expired(session) == isSessionExpired(session, now)
      announce(gone) ==
        [i \in 1..Len(gone) |-> Event("sessionExpired", gone[i].id)]
  IN [store |-> store, emitted |-> announce(SelectSeq(store, expired))]

\* for (const [sessionId, session] of this.sessions) ...
RECURSIVE cleanupExpiredSessions(_, _)
cleanupExpiredSessions(store, now) ==
  IF store = <<>> THEN [store |-> <<>>, emitted |-> <<>>]
  ELSE LET swept(rest) ==
             IF isSessionExpired(Head(store), now)
               THEN [store |-> rest.store,
                     emitted |-> <<Event("sessionExpired", Head(store).id)>>
                                 \o rest.emitted]
               ELSE [store |-> <<Head(store)>> \o rest.store,
                     emitted |-> rest.emitted]
       IN swept(cleanupExpiredSessions(Tail(store), now))

\* ------------------------------------------------------------------------
\* Data manager (modules/dataManager.js)
\* ------------------------------------------------------------------------
\* this.appointments is a Map: its entries, in insertion order
MapHas(map, key) == \E i \in 1..Len(map) : map[i].key = key
MapGet(map, key) == map[CHOOSE i \in 1..Len(map) : map[i].key = key].value
\* set on a key that is present replaces the value and keeps the position
MapSet(map, key, value) ==
  IF MapHas(map, key)
    THEN [i \in 1..Len(map) |->
            IF map[i].key = key THEN [key |-> key, value |-> value]
                                ELSE map[i]]
    ELSE Append(map, [key |-> key, value |-> value])
MapValues(map) == [i \in 1..Len(map) |-> map[i].value]

\* the value undefined
Undefined == [undefined |-> TRUE]

\* { ...object, ...updates }
Merge(object, updates) ==
  [k \in (DOMAIN object) \cup (DOMAIN updates) |->
     IF k \in DOMAIN updates THEN updates[k] ELSE object[k]]

\* data[key] || fallback, for a fallback that is the falsy value of its type
Or(data, key, fallback) ==
  IF key \in DOMAIN data THEN data[key] ELSE fallback

\* events of the data manager
DataEvent(name) == [name |-> name]
DataError(message) == [name |-> "error", message |-> message]
AppointmentEvent(name, appointment) ==
  [name |-> name, appointment |-> appointment]

\* what an operation of the data manager leaves behind: the collection,
\* whether the file was written with it, the events in order, whether the
\* call rejected and with which error, and the value it resolved to
Outcome(map, written, events, error, value) ==
  [appointments |-> map, written |-> written, emitted |-> events,
   thrown |-> error # "", error |-> error, value |-> value]

\* saveToExcel, then the rest of the caller: writeFile succeeds or rejects;
\* on rejection saveToExcel and its caller each emit 'error' and rethrow
Saved(map, writeOk, name, appointment) ==
  IF writeOk
    THEN Outcome(map, TRUE,
                 <<DataEvent("dataSaved"), AppointmentEvent(name, appointment)>>,
                 "", appointment)
    ELSE Outcome(map, FALSE,
                 <<DataError("write failed"), DataError("write failed")>>,
                 "write failed", Undefined)

\* this.config.technicians[technicianId]?.zone || 'N/A'
getTechnicianZone(techs, technicianId) ==
  IF \E i \in 1..Len(techs) : techs[i].id = technicianId
    THEN techs[CHOOSE i \in 1..Len(techs) : techs[i].id = technicianId].zone
    ELSE "N/A"

\* appointmentData.slot is undefined
NoSlotIn(appointmentData) ==
  "slot" \notin DOMAIN appointmentData \/ appointmentData.slot = NoSlot

\* variant: a record is stored whether or not the data has a slot
createAppointment_lenient(map, appointmentData, now, techs, writeOk) ==
  LET stored(appointment) ==
        Saved(MapSet(map, appointment.id, appointment), writeOk,
              "appointmentCreated", appointment)
      slot(data) == IF NoSlotIn(data) THEN NoSlot ELSE data.slot
  IN stored([id |-> appointmentData.id,
             sessionId |-> appointmentData.sessionId,
             customerName |-> Or(appointmentData, "customerName", ""),
             phone |-> Or(appointmentData, "phone", ""),
             startTime |-> slot(appointmentData).start,
             endTime |-> slot(appointmentData).end,
             technician |-> appointmentData.technician,
             status |-> "confirmed",
             language |-> appointmentData.language,
             createdAt |-> now,
             notes |-> Or(appointmentData, "notes", ""),
             reminderEnabled |->
               Or(appointmentData, "reminderEnabled", FALSE),
             zone |-> getTechnicianZone(techs, appointmentData.technician)])

\* variant: a record whose write failed is taken out of the collection
createAppointment_rollback(map, appointmentData, now, techs, writeOk) ==
  LET undone(res) == IF res.written THEN res
                     ELSE [res EXCEPT !.appointments = map]
  IN IF NoSlotIn(appointmentData)
       THEN Outcome(map, FALSE, <<DataError("TypeError")>>, "TypeError",
                    Undefined)
       ELSE undone(createAppointment_lenient(map, appointmentData, now,
                                             techs, writeOk))

createAppointment(map, appointmentData, now, techs, writeOk) ==
  IF NoSlotIn(appointmentData)
    \* appointmentData.slot.start raises a TypeError
    THEN Outcome(map, FALSE, <<DataError("TypeError")>>, "TypeError",
                 Undefined)
    ELSE LET stored(appointment) ==
               Saved(MapSet(map, appointment.id, appointment), writeOk,
                     "appointmentCreated", appointment)
         IN stored([id |-> appointmentData.id,
                    sessionId |-> appointmentData.sessionId,
                    customerName |-> Or(appointmentData, "customerName", ""),
                    phone |-> Or(appointmentData, "phone", ""),
                    startTime |-> appointmentData.slot.start,
                    endTime |-> appointmentData.slot.end,
                    technician |-> appointmentData.technician,
                    status |-> "confirmed",
                    language |-> appointmentData.language,
                    createdAt |-> now,
                    notes |-> Or(appointmentData, "notes", ""),
                    reminderEnabled |->
                      Or(appointmentData, "reminderEnabled", FALSE),
                    zone |->
                      getTechnicianZone(techs, appointmentData.technician)])

\* variant: an unknown id gets a record made of the updates
updateAppointment_upsert(map, appointmentId, updates, now, writeOk) ==
  LET stored(updatedAppointment) ==
        Saved(MapSet(map, appointmentId, updatedAppointment), writeOk,
              "appointmentUpdated", updatedAppointment)
  IN stored(Put(IF MapHas(map, appointmentId)
                  THEN Merge(MapGet(map, appointmentId), updates)
                  ELSE updates,
                "updatedAt", now))

updateAppointment(map, appointmentId, updates, now, writeOk) ==
  IF ~MapHas(map, appointmentId)
    THEN Outcome(map, FALSE, <<DataError("Appointment not found")>>,
                 "Appointment not found", Undefined)
    ELSE LET stored(updatedAppointment) ==
               Saved(MapSet(map, appointmentId, updatedAppointment), writeOk,
                     "appointmentUpdated", updatedAppointment)
         IN stored(Put(Merge(MapGet(map, appointmentId), updates),
                       "updatedAt", now))

\* variant: cancelling also releases the technician
cancelAppointment_release(map, appointmentId, reason, now, writeOk) ==
  updateAppointment(map, appointmentId,
                    [status |-> "cancelled", cancelledAt |-> now,
                     cancellationReason |-> reason, technician |-> ""],
                    now, writeOk)

\* variant: cancelling takes the appointment out of the collection
cancelAppointment_remove(map, appointmentId, reason, now, writeOk) ==
  LET kept(entry) == entry.key # appointmentId
      removed(res) ==
        [res EXCEPT !.appointments = SelectSeq(res.appointments, kept)]
  IN removed(updateAppointment(map, appointmentId,
                               [status |-> "cancelled", cancelledAt |-> now,
                                cancellationReason |-> reason],
                               now, writeOk))

cancelAppointment(map, appointmentId, reason, now, writeOk) ==
  updateAppointment(map, appointmentId,
                    [status |-> "cancelled", cancelledAt |-> now,
                     cancellationReason |-> reason],
                    now, writeOk)

getAppointment(map, appointmentId) ==
  IF MapHas(map, appointmentId) THEN MapGet(map, appointmentId) ELSE Undefined

\* if (filters.x) : the filter is present and not the empty string
Supplied(filters, key) == key \in DOMAIN filters /\ filters[key] # ""

\* Array.prototype.sort with the comparator startTime(a) - startTime(b):
\* a stable sort, built by inserting each element behind its equals
RECURSIVE InsertByStart(_, _)
InsertByStart(sorted, apt) ==
  IF sorted = <<>> THEN <<apt>>
  ELSE IF apt.startTime - Head(sorted).startTime < 0
    THEN <<apt>> \o sorted
    ELSE <<Head(sorted)>> \o InsertByStart(Tail(sorted), apt)
RECURSIVE SortByStart(_)
SortByStart(list) ==
  IF list = <<>> THEN <<>>
  ELSE InsertByStart(SortByStart(SubSeq(list, 1, Len(list) - 1)),
                     list[Len(list)])

\* variant: the filtered appointments are returned in stored order
getAppointments_unsorted(map, filters) ==
  LET isStatus(apt) == apt.status = filters.status
      isTechnician(apt) == apt.technician = filters.technician
      isSameOrAfter(apt) == apt.startTime >= filters.dateFrom
      isSameOrBefore(apt) == apt.startTime <= filters.dateTo
      byStatus(list) ==
        IF Supplied(filters, "status") THEN SelectSeq(list, isStatus)
                                       ELSE list
      byTechnician(list) ==
        IF Supplied(filters, "technician") THEN SelectSeq(list, isTechnician)
                                           ELSE list
      byDateFrom(list) ==
        IF "dateFrom" \in DOMAIN filters THEN SelectSeq(list, isSameOrAfter)
                                         ELSE list
      byDateTo(list) ==
        IF "dateTo" \in DOMAIN filters THEN SelectSeq(list, isSameOrBefore)
                                       ELSE list
  IN byDateTo(byDateFrom(byTechnician(byStatus(MapValues(map)))))

\* each if (filters.x) appointments = appointments.filter(...), then sort
getAppointments(map, filters) ==
  LET isStatus(apt) == apt.status = filters.status
      isTechnician(apt) == apt.technician = filters.technician
      isSameOrAfter(apt) == apt.startTime >= filters.dateFrom
      isSameOrBefore(apt) == apt.startTime <= filters.dateTo
      byStatus(list) ==
        IF Supplied(filters, "status") THEN SelectSeq(list, isStatus)
                                       ELSE list
      byTechnician(list) ==
        IF Supplied(filters, "technician") THEN SelectSeq(list, isTechnician)
                                           ELSE list
      byDateFrom(list) ==
        IF "dateFrom" \in DOMAIN filters THEN SelectSeq(list, isSameOrAfter)
                                         ELSE list
      byDateTo(list) ==
        IF "dateTo" \in DOMAIN filters THEN SelectSeq(list, isSameOrBefore)
                                       ELSE list
  IN SortByStart(byDateTo(byDateFrom(byTechnician(byStatus(MapValues(map))))))

\* saveConversation: the conversation record is put in this.conversations
\* and announced; nothing else is done with it
saveConversation(map, sessionId, conversationData, now) ==
  LET stored(conversation) ==
        [conversations |-> MapSet(map, sessionId, conversation),
         written |-> FALSE,
         emitted |-> <<[name |-> "conversationSaved",
                        conversation |-> conversation]>>,
         thrown |-> FALSE, error |-> "", value |-> conversation]
  IN stored([sessionId |-> sessionId,
             startTime |-> conversationData.startTime,
             endTime |-> Or(conversationData, "endTime", now),
             language |-> conversationData.language,
             messageCount |-> Len(conversationData.messageHistory),
             completed |-> conversationData.completed,
             state |-> conversationData.state,
             appointmentId |-> GetAppointmentId(conversationData.context),
             metadata |-> [userAgent |-> "undefined", ip |-> "undefined",
                           referrer |-> "undefined"]])

\* moment(t).format('DD/MM/YYYY HH:mm'): the day, the month and the minute
FormatDate(t) == <<DayOfMonth(t), MonthOf(t)>> \o FormatHHmm(t)

\* flag ? 'Si' : 'No'
YesNo(flag) == IF flag THEN "Si" ELSE "No"

\* the row setupAppointmentsWorksheet adds for an appointment
AppointmentRow(apt) ==
  [id |-> apt.id,
   sessionId |-> apt.sessionId,
   customerName |-> apt.customerName,
   phone |-> apt.phone,
   startTime |-> FormatDate(apt.startTime),
   endTime |-> FormatDate(apt.endTime),
   technician |-> apt.technician,
   zone |-> apt.zone,
   status |-> apt.status,
   language |-> apt.language,
   createdAt |-> FormatDate(apt.createdAt),
   reminderEnabled |-> YesNo(apt.reminderEnabled = TRUE),
   notes |-> apt.notes]

\* the row setupConversationsWorksheet adds for a conversation
ConversationRow(conv) ==
  [sessionId |-> conv.sessionId,
   startTime |-> FormatDate(conv.startTime),
   endTime |-> FormatDate(conv.endTime),
   duration |-> (conv.endTime - conv.startTime) \div MsPerMinute,
   language |-> conv.language,
   messageCount |-> conv.messageCount,
   completed |-> YesNo(conv.completed),
   state |-> conv.state,
   appointmentId |-> conv.appointmentId]

RECURSIVE SumMessages(_)
SumMessages(list) ==
  IF list = <<>> THEN 0 ELSE Head(list).messageCount + SumMessages(Tail(list))

\* the appointments and conversations parts of generateStats, which are
\* the parts the statistics sheet shows
generateStats(appointmentList, conversationList) ==
  LET withStatus(status) ==
        LET is(a) == a.status = status
        IN Len(SelectSeq(appointmentList, is))
      reminded(a) == a.reminderEnabled = TRUE
      done(c) == c.completed
      inLanguage(language) ==
        LET is(c) == c.language = language
        IN Len(SelectSeq(conversationList, is))
      count == Len(conversationList)
  IN [appointments |->
        [total |-> Len(appointmentList),
         confirmed |-> withStatus("confirmed"),
         pending |-> withStatus("pending"),
         cancelled |-> withStatus("cancelled"),
         completed |-> withStatus("completed"),
         withReminder |-> Len(SelectSeq(appointmentList, reminded))],
      conversations |->
        [total |-> count,
         completed |-> Len(SelectSeq(conversationList, done)),
         \* Math.round(sum / count)
         averageMessages |->
           IF count > 0
             THEN (2 * SumMessages(conversationList) + count) \div (2 * count)
             ELSE 0,
         byLanguage |->
           [language \in {conversationList[i].language :
                            i \in 1..Len(conversationList)} |->
              inLanguage(language)]]]

\* the workbook saveToExcel builds from the two collections: the sheets
\* 'Citas', 'Conversaciones' and 'Estadisticas'
Workbook(appointmentMap, conversationMap) ==
  LET sheets(appointmentList, conversationList) ==
        [Citas |-> [i \in 1..Len(appointmentList) |->
                      AppointmentRow(appointmentList[i])],
         Conversaciones |-> [i \in 1..Len(conversationList) |->
                               ConversationRow(conversationList[i])],
         Estadisticas |-> generateStats(appointmentList, conversationList)]
  IN sheets(MapValues(appointmentMap), MapValues(conversationMap))

\* the keys of worksheet.columns in setupAppointmentsWorksheet, in the
\* order of the columns
AppointmentColumns ==
  <<"id", "sessionId", "customerName", "phone", "startTime", "endTime",
    "technician", "zone", "status", "language", "createdAt",
    "reminderEnabled", "notes">>

\* row.getCell(k).value
getCell(row, k) == row[AppointmentColumns[k]]

\* loadAppointmentsFromWorksheet over the rows below the header
RECURSIVE loadAppointmentsFromWorksheet(_, _)
loadAppointmentsFromWorksheet(map, rows) ==
  IF rows = <<>> THEN map
  ELSE LET appointment(row) ==
             [id |-> getCell(row, 1),
              sessionId |-> getCell(row, 2),
              customerName |-> getCell(row, 3),
              phone |-> getCell(row, 4),
              startTime |-> getCell(row, 5),
              endTime |-> getCell(row, 6),
              technician |-> getCell(row, 7),
              status |-> getCell(row, 8),
              language |-> getCell(row, 9),
              createdAt |-> getCell(row, 10),
              notes |-> getCell(row, 11)]
           set(loaded) == MapSet(map, loaded.id, loaded)
       IN loadAppointmentsFromWorksheet(set(appointment(Head(rows))),
                                        Tail(rows))

\* loadExistingData: the appointments a data manager constructed on the
\* workbook starts with (the sheet config.data.excel.sheetName is 'Citas')
loadExistingData(workbook) ==
  loadAppointmentsFromWorksheet(<<>>, workbook.Citas)

\* createNewExcelFile: one sheet with its header row and no appointment
createNewExcelFile == [Citas |-> <<>>]

\* a text as the sequence of its cells and of the separators between them
Cell(value) == [cell |-> value]
Separator(chars) == [sep |-> chars]
IsSeparator(token, chars) == "sep" \in DOMAIN token /\ token.sep = chars

\* Array.prototype.join over token sequences
RECURSIVE Join(_, _)
Join(parts, separator) ==
  IF parts = <<>> THEN <<>>
  ELSE IF Len(parts) = 1 THEN Head(parts)
  ELSE Head(parts) \o <<separator>> \o Join(Tail(parts), separator)

\* JSON.stringify writes every property of a record with its value (no
\* property of an appointment is undefined: createAppointment gives each
\* a default), the instants as ISO strings to the millisecond
JsonObject(object) == [key \in DOMAIN object |-> object[key]]

\* generateCSV: cells joined by ',' and rows joined by the two characters
\* backslash and n
generateCSV(list) ==
  LET headers == <<"ID Cita", "Cliente", "Inicio", "Fin", "Tecnico",
                   "Estado", "Idioma">>
      row(apt) == <<apt.id, apt.customerName, FormatDate(apt.startTime),
                    FormatDate(apt.endTime), apt.technician, apt.status,
                    apt.language>>
      cells(values) == Join([i \in 1..Len(values) |-> <<Cell(values[i])>>],
                            Separator(","))
      rows(table) == Join([i \in 1..Len(table) |-> cells(table[i])],
                          Separator("\\n"))
  IN rows(<<headers>> \o [i \in 1..Len(list) |-> row(list[i])])

\* generateExcelBuffer: a workbook with the sheet 'Citas Exportadas', to
\* which nothing is added
generateExcelBuffer(list) == [sheet |-> "Citas Exportadas", rows |-> <<>>]

exportData(map, format, filters) ==
  LET rendered(list) ==
        IF format = "json"
          THEN [format |-> "json",
                records |-> [i \in 1..Len(list) |-> JsonObject(list[i])]]
        ELSE IF format = "csv"
          THEN [format |-> "csv", text |-> generateCSV(list)]
          ELSE [format |-> "excel", workbook |-> generateExcelBuffer(list)]
  IN rendered(getAppointments(map, filters))

\* setupEventHandlers: conversationsManager.on('appointmentCreated', ...)
\* hands each such event of a call to createAppointment, where a rejection
\* is logged, and conversationsManager.on('sessionCompleted', ...) hands the
\* session to saveConversation.  data holds the two collections, the file
\* and the events so far.
RECURSIVE Delivered(_, _, _, _, _)
Delivered(data, events, now, techs, writeOk) ==
  IF events = <<>> THEN data
  ELSE IF Head(events).name = "appointmentCreated"
    THEN LET after(res) ==
               [data EXCEPT
                  !.appointments = res.appointments,
                  !.file = IF res.written
                             THEN Workbook(res.appointments,
                                           data.conversations)
                             ELSE data.file,
                  !.emitted = data.emitted \o res.emitted]
         IN Delivered(after(createAppointment(data.appointments, Head(events),
                                              now, techs, writeOk)),
                      Tail(events), now, techs, writeOk)
    ELSE IF Head(events).name = "sessionCompleted"
      THEN LET after(res) ==
                 [data EXCEPT
                    !.conversations = res.conversations,
                    !.emitted = data.emitted \o res.emitted]
           IN Delivered(after(saveConversation(data.conversations,
                                               Head(events).sessionId,
                                               Head(events).session, now)),
                        Tail(events), now, techs, writeOk)
      ELSE Delivered(data, Tail(events), now, techs, writeOk)

\* the history of appointmentCreated events, extended by those of a call
RECURSIVE Recorded(_, _)
Recorded(history, events) ==
  IF events = <<>> THEN history
  ELSE IF Head(events).name = "appointmentCreated"
    THEN Recorded(MapSet(history, Head(events).sessionId, Head(events).id),
                  Tail(events))
    ELSE Recorded(history, Tail(events))

\* a call whose events reach writeFile
Writes(events) ==
  \E i \in 1..Len(events) :
    events[i].name = "appointmentCreated" /\ ~NoSlotIn(events[i])

\* ------------------------------------------------------------------------
\* State machine
\* ------------------------------------------------------------------------
VARIABLES
  sessions,       \* this.sessions
  now,            \* the wall clock
  errorListener,  \* a listener is registered for the manager's 'error' event
  emitted,        \* events delivered by the last operation, in order
  last,           \* what the last operation was called with and returned
  calls,          \* number of calls explored so far
  appointments,   \* the data manager's this.appointments
  conversations,  \* the data manager's this.conversations
  file,           \* the workbook in the data file as last written
  backups,        \* the copies createBackup has made of the file, in order
  pending,        \* calls of the data manager that wait for their write
  dataEmitted,    \* events of the data manager in the last operation
  created         \* history: per session, the id its latest
                  \* appointmentCreated event carried

dataVars == <<appointments, conversations, file, backups, pending,
              dataEmitted>>
vars == <<sessions, now, errorListener, emitted, last, calls,
          appointments, conversations, file, backups, pending, dataEmitted,
          created>>

\* the data manager after init() on a directory without a data file
DataStart ==
  /\ appointments = <<>>
  /\ conversations = <<>>
  /\ file = createNewExcelFile
  /\ backups = <<>>
  /\ pending = <<>>
  /\ dataEmitted = <<>>

\* Monday 08:30
StartInstant == MsPerDay + 8 * MsPerHour + 30 * MsPerMinute

\* config.technicians, in key order
technicians ==
  << [id |-> "CLARITY-01", zone |-> "PLZ 29xxx", active |-> TRUE],
     [id |-> "CLARITY-02", zone |-> "PLZ 30xxx", active |-> FALSE],
     [id |-> "CLARITY-03", zone |-> "PLZ 31xxx", active |-> TRUE] >>

\* a random draw is enumerated only for a call that consumes it
Draws(S, consumed) == IF consumed THEN S ELSE {CHOOSE x \in S : TRUE}
InState(store, sessionId, state) ==
  Has(store, sessionId) /\ Get(store, sessionId).state = state

BaseMessages ==
  { Str(S_start), Str(S_Deutsch), Str(S_JA), Str(S_delete_data), Str(S_Nein),
    Str(S_Fertig), NumberMessage }

\* the slot labels a session has been offered as quick replies
OfferedSlots(store, sessionId) ==
  IF Has(store, sessionId)
       /\ "availableSlots" \in DOMAIN Get(store, sessionId).context
    THEN LET labels(session) ==
               { Str(formatSlotForDisplay(session.context.availableSlots[i],
                                          session.language)) :
                   i \in 1..Len(session.context.availableSlots) }
         IN labels(Get(store, sessionId))
    ELSE {}

NoCall ==
  [op |-> "none", sessionId |-> 0, message |-> NumberMessage,
   existed |-> FALSE, stateBefore |-> "", stale |-> FALSE,
   raised |-> FALSE, thrown |-> FALSE, response |-> NoResponse]

\* The store after the given messages have been processed for one session,
\* one after the other at the instant t, starting from the given store.
RECURSIVE After(_, _, _, _, _)
After(store, sessionId, messages, t, listener) ==
  IF messages = <<>> THEN store
  ELSE After(processMessage(store, sessionId, Head(messages), t, 1, "X7QA", 0,
                            technicians, listener).store,
             sessionId, Tail(messages), t, listener)

\* the opening of a booking: greeting, language, consent
Opening == <<Str(S_start), Str(S_Deutsch), Str(S_JA)>>

\* the store once session 1 has gone through the opening and has picked the
\* first slot it was offered, all of it sessionTimeout before StartInstant
BookingStore(listener) ==
  LET t == StartInstant - sessionTimeout
      pick(opened, offered) ==
        IF offered = {} THEN opened
        ELSE After(opened, 1, <<CHOOSE label \in offered : TRUE>>, t, listener)
      picked(opened) == pick(opened, OfferedSlots(opened, 1))
  IN picked(After(<<>>, 1, Opening, t, listener))

\* The manager right after construction, or with session 1 in the middle of
\* a booking that it has left idle for sessionTimeout.
Init ==
  /\ errorListener \in BOOLEAN
  /\ sessions \in {<<>>, BookingStore(errorListener)}
  /\ calls = 0
  /\ now = StartInstant
  /\ emitted = <<>>
  /\ last = NoCall
  /\ created = <<>>
  /\ DataStart

\* a call of processMessage by the entry point op, and the server's
\* listeners on the events of the call
ProcessedWithin(limit, op, sessionId, message) ==
  /\ calls < limit
  /\ calls' = calls + 1
  /\ \E draw \in Draws(SlotIdDraws, InState(sessions, sessionId, "CONSENT")),
        suffix \in Draws(Suffixes, InState(sessions, sessionId, "CONFIRMATION")),
        r \in Draws(RandomValues, InState(sessions, sessionId, "CONFIRMATION")) :
       \E res \in {processMessage(sessions, sessionId, message, now, draw,
                                   suffix, r, technicians, errorListener)},
          existed \in {Has(sessions, sessionId)} :
          /\ \E writeOk \in Draws(BOOLEAN, Writes(res.emitted)) :
               \E data \in {Delivered([appointments |-> appointments,
                                       conversations |-> conversations,
                                       file |-> file, emitted |-> <<>>],
                                      res.emitted, now, technicians,
                                      writeOk)} :
                 /\ appointments' = data.appointments
                 /\ conversations' = data.conversations
                 /\ file' = data.file
                 /\ dataEmitted' = data.emitted
          /\ sessions' = res.store
          /\ emitted' = res.emitted
          /\ created' = Recorded(created, res.emitted)
          /\ last' = [op |-> op,
                      sessionId |-> sessionId,
                      message |-> message,
                      existed |-> existed,
                      stateBefore |-> IF existed
                                        THEN Get(sessions, sessionId).state
                                        ELSE "INIT",
                      stale |-> existed
                                /\ isSessionExpired(Get(sessions, sessionId),
                                                    now),
                      raised |-> res.raised,
                      thrown |-> res.thrown,
                      response |-> [res.response EXCEPT !.quick = <<>>]]
  /\ UNCHANGED <<now, errorListener, backups, pending>>

Processed(op, sessionId, message) ==
  ProcessedWithin(MaxCalls, op, sessionId, message)

ProcessMessage(sessionId, message) ==
  Processed("processMessage", sessionId, message)

CleanupExpiredSessions ==
  \E res \in {cleanupExpiredSessions(sessions, now)} :
     /\ sessions' = res.store
     /\ emitted' = res.emitted
     /\ last' = [NoCall EXCEPT !.op = "cleanupExpiredSessions"]
     /\ dataEmitted' = <<>>
     /\ UNCHANGED <<now, errorListener, calls, appointments, conversations,
                    file, backups, pending, created>>

\* time passes between operations, sessionTimeout at a time
Tick ==
  /\ now < StartInstant + MaxTicks * sessionTimeout
  /\ now' = now + sessionTimeout
  /\ UNCHANGED <<sessions, errorListener, emitted, last, calls, created>>
  /\ UNCHANGED dataVars

Next ==
  \/ \E sessionId \in SessionIds :
       \E message \in BaseMessages \cup OfferedSlots(sessions, sessionId) :
         ProcessMessage(sessionId, message)
  \/ CleanupExpiredSessions
  \/ Tick

Spec == Init /\ [][Next]_vars

\* ------------------------------------------------------------------------
\* Properties
\* ------------------------------------------------------------------------
Called == last.op = "processMessage"
IsStart(message) == IsString(message) /\ message.chars = S_start
\* the session the last call was for
Current == Get(sessions, last.sessionId)
Emitted(name, sessionId) ==
  {i \in 1..Len(emitted) :
     emitted[i].name = name /\ emitted[i].sessionId = sessionId}

TransitionTable ==
  { <<"INIT", "LANGUAGE_SELECTION">>,
    <<"LANGUAGE_SELECTION", "CONSENT">>,
    <<"LANGUAGE_SELECTION", "LANGUAGE_SELECTION">>,
    <<"CONSENT", "SLOT_SELECTION">>, <<"CONSENT", "COMPLETED">>,
    <<"CONSENT", "CONSENT">>,
    <<"SLOT_SELECTION", "CONFIRMATION">>,
    <<"SLOT_SELECTION", "SLOT_SELECTION">>,
    <<"CONFIRMATION", "REMINDER_SETUP">>,
    <<"CONFIRMATION", "SLOT_SELECTION">>,
    <<"CONFIRMATION", "CONFIRMATION">>,
    <<"REMINDER_SETUP", "MANAGEMENT">>,
    <<"MANAGEMENT", "MANAGEMENT">>, <<"MANAGEMENT", "COMPLETED">> }

StateInStates == \A i \in 1..Len(sessions) : sessions[i].state \in States

\* C1 (as stated): every session state is one of the nine states, and every
\* message processed without a handler exception takes the session along a
\* row of the transition table.
C1_TransitionTable ==
  /\ StateInStates
  /\ (Called /\ ~last.raised) =>
       <<last.stateBefore, Current.state>> \in TransitionTable

\* C1 (amended): every session state is one of the nine states; a message
\* other than '/start' processed without a handler exception takes the
\* session along a row of the transition table extended by
\* COMPLETED->COMPLETED and ERROR->ERROR; '/start' takes the session from
\* any state to LANGUAGE_SELECTION.
C1_TransitionTableWithStart ==
  /\ StateInStates
  /\ (Called /\ ~last.raised /\ ~IsStart(last.message)) =>
       <<last.stateBefore, Current.state>> \in
          TransitionTable \cup { <<"COMPLETED", "COMPLETED">>,
                                 <<"ERROR", "ERROR">> }
  /\ (Called /\ IsStart(last.message)) =>
       (~last.raised /\ Current.state = "LANGUAGE_SELECTION")

C1_Witness ==
  /\ Called /\ IsStart(last.message)
  /\ last.stateBefore = "CONFIRMATION"
  /\ Current.state = "LANGUAGE_SELECTION"

\* C2 (as stated): processMessage never throws or rejects to its caller,
\* whether or not a listener is registered for the manager's events.
C2_NeverThrows == Called => ~last.thrown

\* the session a call finds: the stored one, or the one getSession creates
Found(sessionId) ==
  IF Has(sessions, sessionId) THEN Get(sessions, sessionId)
                              ELSE NewSession(sessionId, now)

\* C3 (as stated): when a state handler raises, retryCount grows by exactly
\* one; below maxRetries the state is kept and the re-prompt carries it, at
\* or above maxRetries the state becomes ERROR and sessionFailed is emitted.
C3_RetryOnRaise ==
  [][ (last'.op = "processMessage" /\ calls' # calls /\ last'.raised) =>
        LET before == Found(last'.sessionId)
            after == Get(sessions', last'.sessionId)
        IN /\ after.retryCount = before.retryCount + 1
           /\ after.retryCount < maxRetries =>
                /\ after.state = before.state
                /\ ~last'.thrown
                /\ last'.response.state = before.state
           /\ after.retryCount >= maxRetries =>
                /\ after.state = "ERROR"
                /\ \E i \in 1..Len(emitted') :
                     /\ emitted'[i].name = "sessionFailed"
                     /\ emitted'[i].sessionId = last'.sessionId ]_vars

C5_TimeoutShortCircuit ==
  (Called /\ last.stale) =>
     /\ last.response.bot = "session_timeout"
     /\ last.response.state = "COMPLETED"
     /\ Current.state = "COMPLETED"

IsDeleteCommand(message) ==
  /\ IsString(message)
  /\ \/ startsWith(message.chars, S_borrar)
     \/ startsWith(message.chars, S_daten_loeschen)
     \/ startsWith(message.chars, S_delete)

\* C6 (as stated): in CONSENT a message that starts with a delete-data
\* command moves the session to COMPLETED and clears its context and its
\* message history.
C6_DeleteCompletes ==
  (Called /\ last.stateBefore = "CONSENT" /\ IsDeleteCommand(last.message)) =>
     /\ Current.state = "COMPLETED"
     /\ Current.context = EmptyContext
     /\ \A i \in 1..Len(Current.messageHistory) :
          Current.messageHistory[i].type # "user"

ActiveIds == {technicians[i].id : i \in {j \in 1..Len(technicians) :
                                           technicians[j].active}}

\* an affirmative message: a string, not the '/start' command, in which a
\* positive word of the session's language occurs
Affirmative(message, language) ==
  /\ IsString(message) /\ ~IsStart(message)
  /\ isPositiveResponse(message.chars, language)

\* C7: in CONFIRMATION an affirmative message moves the session to
\* REMINDER_SETUP, stores a fresh appointment id and an active technician in
\* the context, and emits exactly one appointmentCreated event that carries
\* the session id, that appointment id, the selected slot and that
\* technician; no other message in CONFIRMATION emits appointmentCreated.
C7_ConfirmationCreatesAppointment ==
  (Called /\ last.stateBefore = "CONFIRMATION") =>
     IF Affirmative(last.message, Current.language)
       THEN /\ Current.state = "REMINDER_SETUP"
            /\ "appointmentId" \in DOMAIN Current.context
            /\ Current.context.appointmentId.stamp =
                 Current.lastActivity \div MsPerMinute
            /\ Current.context.appointmentId.suffix \in Suffixes
            /\ Current.context.technician \in ActiveIds
            /\ Cardinality(Emitted("appointmentCreated", Current.id)) = 1
            /\ \A i \in 1..Len(emitted) :
                 emitted[i].name = "appointmentCreated" =>
                   /\ emitted[i].sessionId = Current.id
                   /\ emitted[i].id = Current.context.appointmentId
                   /\ emitted[i].slot = Current.context.selectedSlot
                   /\ emitted[i].technician = Current.context.technician
       ELSE \A i \in 1..Len(emitted) : emitted[i].name # "appointmentCreated"

C7_Witness ==
  /\ Called /\ last.stateBefore = "CONFIRMATION"
  /\ Affirmative(last.message, Current.language)
  /\ Current.state = "REMINDER_SETUP"
  /\ Emitted("appointmentCreated", Current.id) # {}

\* C8 (as stated): every processMessage call appends exactly one user entry
\* to the history unless the session was in INIT, and exactly one bot entry
\* whenever a response is returned to the caller.
C8_HistoryAppends ==
  [][ last'.op = "processMessage" /\ calls' # calls =>
        LET before == Found(last'.sessionId).messageHistory
            after == Get(sessions', last'.sessionId).messageHistory
            user == IF last'.stateBefore = "INIT" THEN <<>>
                    ELSE <<[type |-> "user"]>>
            bot == IF last'.thrown THEN <<>> ELSE <<[type |-> "bot"]>>
        IN after = before \o user \o bot ]_vars

\* C9 (as stated): retryCount never decreases, and it grows only when the
\* processing of a message raised a handler exception.
C9_RetryOnlyOnFault ==
  [][ \A sessionId \in Ids(sessions) \cap Ids(sessions') :
        LET before == Get(sessions, sessionId).retryCount
            after == Get(sessions', sessionId).retryCount
        IN /\ after >= before
           /\ after > before =>
                /\ last'.op = "processMessage"
                /\ last'.sessionId = sessionId
                /\ last'.raised ]_vars

Inactive(session) == (now - session.lastActivity) > sessionTimeout
Active(session) == ~Inactive(session)

\* C10: cleanupExpiredSessions removes exactly the sessions whose inactivity
\* exceeds sessionTimeout, emits one sessionExpired event for each of them,
\* and leaves every other session in the store, unchanged.
C10_CleanupRemovesExpired ==
  [][ (last'.op = "cleanupExpiredSessions" /\ now' = now /\ calls' = calls) =>
        /\ sessions' = SelectSeq(sessions, Active)
        /\ Len(emitted') = Len(SelectSeq(sessions, Inactive))
        /\ \A i \in 1..Len(sessions) :
             Inactive(sessions[i]) =>
               Cardinality({k \in 1..Len(emitted') :
                              emitted'[k] = Event("sessionExpired",
                                                  sessions[i].id)}) = 1 ]_vars

C10_Witness ==
  /\ last.op = "cleanupExpiredSessions"
  /\ \E i \in 1..Len(emitted) : emitted[i].name = "sessionExpired"
  /\ sessions # <<>>

\* C11 (as stated): a sweep that follows a sweep, with no message processed
\* in between, removes no session and emits no sessionExpired event.
C11_SweepIdempotent ==
  [][ (/\ last.op = "cleanupExpiredSessions"
       /\ last'.op = "cleanupExpiredSessions"
       /\ now' = now /\ calls' = calls) =>
        (sessions' = sessions /\ emitted' = <<>>) ]_vars

\* C11 (amended): a sweep that follows a sweep at the same clock reading
\* removes no session and emits no sessionExpired event.
C11_SweepIdempotentAtInstant ==
  LET again(once) ==
        cleanupExpiredSessions(once.store, now) =
          [store |-> once.store, emitted |-> <<>>]
  IN again(cleanupExpiredSessions(sessions, now))

\* a store from which the first sweep removes a session and keeps another
C11_Witness ==
  /\ \E i \in 1..Len(sessions) : Inactive(sessions[i])
  /\ \E i \in 1..Len(sessions) : Active(sessions[i])

----------------------------------------------------------------------------
\* Slot generation as a function of the clock and of config.appointments.
\* The clock reading is drawn at the start; each call records the
\* configuration it ran with and the slots it returned.

\* config.appointments.availableSlots as shipped
exampleAvailableSlots ==
  [d \in 1..6 |->
     IF d <= 4 THEN <<T0900, T1100, T1300, T1500, T1700>>
     ELSE IF d = 5 THEN <<T0900, T1100, T1300, T1500>>
     ELSE <<T0900, T1100, T1300>>]

\* config.appointments as shipped
exampleAppointmentsConfig ==
  [availableSlots |-> exampleAvailableSlots,
   slotDuration |-> slotDuration,
   advanceBookingDays |-> 14,
   minAdvanceHours |-> minAdvanceHours]

\* weekly templates: the shipped one, one start a day, an afternoon start,
\* starts listed out of order, a start listed twice
SlotTemplates ==
  { exampleAvailableSlots,
    availableSlotsConfig,
    [d \in 1..6 |-> <<T1500>>],
    [d \in 1..6 |-> <<T1300, T0900>>],
    [d \in 1..6 |-> <<T0900, T0900>>] }

SlotConfigs ==
  [availableSlots : SlotTemplates,
   slotDuration : {slotDuration},
   advanceBookingDays : {1, AdvanceBookingDays, 14},
   minAdvanceHours : {12, minAdvanceHours, 36}]

\* Monday 08:30, Monday 14:00, Friday 16:45:00.007, Saturday 23:59:59.999
SlotInstants ==
  { StartInstant,
    MsPerDay + 14 * MsPerHour,
    5 * MsPerDay + 16 * MsPerHour + 45 * MsPerMinute + 7,
    7 * MsPerDay - 1 }

SlotInit ==
  /\ now \in SlotInstants
  /\ sessions = <<>>
  /\ errorListener = TRUE
  /\ emitted = <<>>
  /\ calls = 0
  /\ last = NoCall
  /\ created = <<>>
  /\ DataStart

\* ConversationsManager.generateAvailableSlots
GenerateAvailableSlots ==
  /\ \E config \in SlotConfigs, draw \in SlotIdDraws :
       last' = [op |-> "generateAvailableSlots", config |-> config,
                slots |-> generateAvailableSlotsWith(config, now, draw)]
  /\ UNCHANGED <<sessions, now, errorListener, emitted, calls, created>>
  /\ UNCHANGED dataVars

\* BotCitasServer.generateAvailableSlots
ServerGenerateAvailableSlots ==
  /\ \E config \in SlotConfigs :
       last' = [op |-> "serverGenerateAvailableSlots", config |-> config,
                slots |-> serverGenerateAvailableSlots(config, now)]
  /\ UNCHANGED <<sessions, now, errorListener, emitted, calls, created>>
  /\ UNCHANGED dataVars

SlotNext ==
  \/ GenerateAvailableSlots
  \/ ServerGenerateAvailableSlots

SlotSpec == SlotInit /\ [][SlotNext]_vars

MinLead(config) == now + config.minAdvanceHours * MsPerHour
Horizon(config) == now + config.advanceBookingDays * MsPerDay

\* C12: for every clock reading and every configuration, the session-scoped
\* generateAvailableSlots returns at most 10 slots, each starting strictly
\* after now + minAdvanceHours and strictly before now + advanceBookingDays.
C12_SessionSlotsWithinWindow ==
  last.op = "generateAvailableSlots" =>
    /\ Len(last.slots) <= 10
    /\ \A i \in 1..Len(last.slots) :
         /\ last.slots[i].start > MinLead(last.config)
         /\ last.slots[i].start < Horizon(last.config)

\* C13: for every weekly template, the sequence returned by the
\* session-scoped generateAvailableSlots is strictly ascending by start.
C13_SessionSlotsAscending ==
  last.op = "generateAvailableSlots" =>
    \A i \in 1..(Len(last.slots) - 1) :
      last.slots[i].start < last.slots[i + 1].start

\* C14: under the shipped configuration and for every clock reading, the
\* server's generateAvailableSlots returns at most 20 slots, each starting
\* strictly after now + minAdvanceHours and before now + advanceBookingDays.
C14_ServerSlotsWithinWindow ==
  (last.op = "serverGenerateAvailableSlots"
     /\ last.config = exampleAppointmentsConfig) =>
    /\ Len(last.slots) <= 20
    /\ \A i \in 1..Len(last.slots) :
         /\ last.slots[i].start > MinLead(last.config)
         /\ last.slots[i].start < Horizon(last.config)

----------------------------------------------------------------------------
\* Two bookings side by side: sessions 1 and 2 have each gone through the
\* opening and picked a slot, and both are asked to confirm.

\* the store once sessionId has gone through the opening and has picked the
\* first slot it was offered, starting from the given store
Booked(store, sessionId, t, listener) ==
  LET pick(opened, offered) ==
        IF offered = {} THEN opened
        ELSE After(opened, sessionId, <<CHOOSE label \in offered : TRUE>>, t,
                   listener)
      picked(opened) == pick(opened, OfferedSlots(opened, sessionId))
  IN picked(After(store, sessionId, Opening, t, listener))

ConfirmInit ==
  /\ errorListener \in BOOLEAN
  /\ sessions = Booked(BookingStore(errorListener), 2,
                       StartInstant - sessionTimeout, errorListener)
  /\ calls = 0
  /\ now = StartInstant
  /\ emitted = <<>>
  /\ last = NoCall
  /\ created = <<>>
  /\ DataStart

\* the customers answer yes or no; time passes and the sweep runs as before
ConfirmNext ==
  \/ \E sessionId \in SessionIds :
       \E message \in {Str(S_JA), Str(S_Nein)} :
         ProcessMessage(sessionId, message)
  \/ CleanupExpiredSessions
  \/ Tick

ConfirmSpec == ConfirmInit /\ [][ConfirmNext]_vars

\* C15: every affirmative confirmation adds an appointment to the
\* collection: the appointment of an earlier confirmation is never
\* overwritten by a later one with the same id.
C15_ConfirmationsKeepDistinctAppointments ==
  [][ (calls' # calls
        /\ \E i \in 1..Len(emitted') :
              emitted'[i].name = "appointmentCreated") =>
        Len(appointments') = Len(appointments) + 1 ]_vars

----------------------------------------------------------------------------
\* The data manager on its own: appointments are created, updated,
\* cancelled and queried through its methods (the server's routes
\* /api/appointments call the same methods with the request's values).

AppointmentIds == {generateAppointmentId(StartInstant, suffix) :
                     suffix \in Suffixes}

\* the first two slots the shipped configuration offers on Monday morning
InputSlots ==
  LET firstTwo(slots) == {slots[1], slots[2]}
  IN firstTwo(generateAvailableSlotsWith(exampleAppointmentsConfig,
                                         StartInstant, 1))

\* what createAppointment is called with: with a slot, or without one
AppointmentInputs ==
  { [id |-> id, sessionId |-> 1, slot |-> slot, technician |-> technician,
     language |-> "de"] :
      id \in AppointmentIds, slot \in InputSlots,
      technician \in {"CLARITY-01", "CLARITY-03"} }
  \cup
  { [id |-> id, sessionId |-> 1, technician |-> "CLARITY-01",
     language |-> "de"] : id \in AppointmentIds }

\* the body of PUT /api/appointments/:id
Patches ==
  { [status |-> "confirmed"], [status |-> "no-show"],
    [notes |-> "call first"] }

Reasons == {"", "customer request"}

\* a filter is absent or has one of the given values
Optional(key, values) ==
  {EmptyContext} \cup {[k \in {key} |-> value] : value \in values}

\* the query of GET /api/appointments
FilterSets ==
  { Merge(Merge(Merge(status, technician), dateFrom), dateTo) :
      status \in Optional("status", {"cancelled"}),
      technician \in Optional("technician", {"CLARITY-01"}),
      dateFrom \in Optional("dateFrom", {slot.start : slot \in InputSlots}),
      dateTo \in Optional("dateTo", {slot.start : slot \in InputSlots}) }

DataInit ==
  /\ DataStart
  /\ sessions = <<>>
  /\ errorListener = TRUE
  /\ emitted = <<>>
  /\ calls = 0
  /\ now = StartInstant
  /\ last = NoCall
  /\ created = <<>>

\* the effects of a mutating call of the data manager
Applied(res) ==
  /\ appointments' = res.appointments
  /\ file' = IF res.written
               THEN Workbook(res.appointments, conversations)
               ELSE file
  /\ dataEmitted' = res.emitted
  /\ calls' = calls + 1
  /\ now' = now + CallLatencyMs
  /\ UNCHANGED <<conversations, backups, pending>>
  /\ UNCHANGED <<sessions, errorListener, emitted, created>>

Returned(op, res) ==
  [op |-> op, thrown |-> res.thrown, error |-> res.error,
   written |-> res.written, value |-> res.value]

CreateAppointment ==
  /\ calls < MaxDataCalls
  /\ \E appointmentData \in AppointmentInputs :
       \E writeOk \in Draws(BOOLEAN, ~NoSlotIn(appointmentData)) :
         \E res \in {createAppointment(appointments, appointmentData, now,
                                       technicians, writeOk)} :
           /\ Applied(res)
           /\ last' = Merge(Returned("createAppointment", res),
                            [data |-> appointmentData])

UpdatedWith(patches) ==
  /\ calls < MaxDataCalls
  /\ \E appointmentId \in AppointmentIds, updates \in patches :
       \E writeOk \in Draws(BOOLEAN, MapHas(appointments, appointmentId)) :
         \E res \in {updateAppointment(appointments, appointmentId, updates,
                                       now, writeOk)} :
           /\ Applied(res)
           /\ last' = Merge(Returned("updateAppointment", res),
                            [id |-> appointmentId, updates |-> updates])

UpdateAppointment == UpdatedWith(Patches)

CancelAppointment ==
  /\ calls < MaxDataCalls
  /\ \E appointmentId \in AppointmentIds, reason \in Reasons :
       \E writeOk \in Draws(BOOLEAN, MapHas(appointments, appointmentId)) :
         \E res \in {cancelAppointment(appointments, appointmentId, reason,
                                       now, writeOk)} :
           /\ Applied(res)
           /\ last' = Merge(Returned("cancelAppointment", res),
                            [id |-> appointmentId, reason |-> reason])

GetAppointments ==
  /\ calls < MaxDataCalls
  /\ \E filters \in FilterSets :
       last' = [op |-> "getAppointments", filters |-> filters,
                result |-> getAppointments(appointments, filters)]
  /\ dataEmitted' = <<>>
  /\ calls' = calls + 1
  /\ now' = now + CallLatencyMs
  /\ UNCHANGED <<appointments, conversations, file, backups, pending>>
  /\ UNCHANGED <<sessions, errorListener, emitted, created>>

\* what saveConversation is called with: a session of the conversations
\* manager, in the course of its conversation or completed
ConversationInputs ==
  { [NewSession(sessionId, StartInstant) EXCEPT
       !.state = progress.state,
       !.completed = progress.completed,
       !.messageHistory = progress.history] :
      sessionId \in {1},
      progress \in { [state |-> "LANGUAGE_SELECTION", completed |-> FALSE,
                      history |-> <<[type |-> "user"], [type |-> "bot"]>>],
                     [state |-> "COMPLETED", completed |-> TRUE,
                      history |-> <<[type |-> "user"], [type |-> "bot"],
                                    [type |-> "user"]>>] } }

SaveConversation ==
  /\ calls < MaxDataCalls
  /\ \E conversationData \in ConversationInputs :
       \E res \in {saveConversation(conversations, conversationData.id,
                                    conversationData, now)} :
         /\ conversations' = res.conversations
         /\ dataEmitted' = res.emitted
         /\ last' = Merge(Returned("saveConversation", res),
                          [id |-> conversationData.id])
  /\ calls' = calls + 1
  /\ now' = now + CallLatencyMs
  /\ UNCHANGED <<appointments, file, backups, pending>>
  /\ UNCHANGED <<sessions, errorListener, emitted, created>>

ExportFormats == {"json", "csv", "excel"}

\* the filters of an export: by status, by technician, by both or none
ExportFilters ==
  {filters \in FilterSets : DOMAIN filters \subseteq {"status", "technician"}}

\* POST /api/export
ExportData ==
  /\ calls < MaxDataCalls
  /\ \E format \in ExportFormats, filters \in ExportFilters :
       last' = [op |-> "exportData", format |-> format, filters |-> filters,
                thrown |-> FALSE,
                result |-> exportData(appointments, format, filters)]
  /\ dataEmitted' = <<>>
  /\ calls' = calls + 1
  /\ now' = now + CallLatencyMs
  /\ UNCHANGED <<appointments, conversations, file, backups, pending>>
  /\ UNCHANGED <<sessions, errorListener, emitted, created>>

\* createBackup, run by the backup timer: the data file is copied; a copy
\* that fails is reported and nothing is thrown
CreateBackup ==
  /\ calls < MaxDataCalls
  /\ \E copyOk \in BOOLEAN :
       /\ backups' = IF copyOk THEN Append(backups, file) ELSE backups
       /\ dataEmitted' = IF copyOk THEN <<DataEvent("backupCreated")>>
                                   ELSE <<DataError("copy failed")>>
       /\ last' = [op |-> "createBackup", thrown |-> FALSE,
                   copied |-> copyOk]
  /\ calls' = calls + 1
  /\ now' = now + CallLatencyMs
  /\ UNCHANGED <<appointments, conversations, file, pending>>
  /\ UNCHANGED <<sessions, errorListener, emitted, created>>

DataNext ==
  \/ CreateAppointment
  \/ UpdateAppointment
  \/ CancelAppointment
  \/ GetAppointments
  \/ SaveConversation
  \/ ExportData
  \/ CreateBackup

DataSpec == DataInit /\ [][DataNext]_vars

\* a call of the data manager has just been made
DataCalled(op) == calls' # calls /\ last'.op = op
NoEvent(events, name) == \A i \in 1..Len(events) : events[i].name # name

\* C16: updateAppointment and cancelAppointment with an id that is not in
\* the collection reject with a not-found error, leave the collection
\* unchanged, write no file and emit no appointmentUpdated event.
C16_UnknownIdRejected ==
  [][ ((DataCalled("updateAppointment") \/ DataCalled("cancelAppointment"))
        /\ ~MapHas(appointments, last'.id)) =>
        /\ last'.thrown
        /\ last'.error = "Appointment not found"
        /\ appointments' = appointments
        /\ ~last'.written /\ file' = file
        /\ NoEvent(dataEmitted', "appointmentUpdated") ]_vars

\* an update and a cancel were rejected for an id missing from a collection
\* that holds another appointment
C16_Witness ==
  /\ last.op \in {"updateAppointment", "cancelAppointment"}
  /\ last.thrown /\ last.error = "Appointment not found"
  /\ appointments # <<>> /\ ~MapHas(appointments, last.id)

AuditFields == {"status", "cancelledAt", "cancellationReason", "updatedAt"}

\* C17: after cancelAppointment of an existing appointment, getAppointment
\* yields a record with status cancelled and a cancelledAt; every field
\* other than status, cancelledAt, cancellationReason and updatedAt has the
\* value it had before, and every other appointment is unchanged.
C17_CancelFrame ==
  [][ (DataCalled("cancelAppointment") /\ MapHas(appointments, last'.id)) =>
        LET before == MapGet(appointments, last'.id)
            after == getAppointment(appointments', last'.id)
        IN /\ after # Undefined
           /\ after.status = "cancelled"
           /\ "cancelledAt" \in DOMAIN after /\ after.cancelledAt = now
           /\ DOMAIN before \subseteq DOMAIN after
           /\ (DOMAIN after) \ AuditFields \subseteq DOMAIN before
           /\ \A k \in (DOMAIN before) \ AuditFields : after[k] = before[k]
           /\ Len(appointments') = Len(appointments)
           /\ \A i \in 1..Len(appointments) :
                appointments[i].key # last'.id =>
                  appointments'[i] = appointments[i] ]_vars

\* one of two appointments has been cancelled
C17_Witness ==
  /\ last.op = "cancelAppointment" /\ ~last.thrown
  /\ Len(appointments) = 2
  /\ MapGet(appointments, last.id).status = "cancelled"
  /\ \E i \in 1..2 : appointments[i].value.status = "confirmed"

\* C18: once an appointment is cancelled it stays cancelled, and the status
\* of every appointment is pending, confirmed, cancelled or completed.
C18_StatusForwardOnly ==
  [][ /\ \A i \in 1..Len(appointments) :
           appointments[i].value.status = "cancelled" =>
             appointments'[i].value.status = "cancelled"
      /\ \A i \in 1..Len(appointments') :
           appointments'[i].value.status \in
             {"pending", "confirmed", "cancelled", "completed"} ]_vars

\* the appointment passes every filter that is given
Passes(apt, filters) ==
  /\ ("status" \in DOMAIN filters /\ filters.status # "") =>
       apt.status = filters.status
  /\ ("technician" \in DOMAIN filters /\ filters.technician # "") =>
       apt.technician = filters.technician
  /\ "dateFrom" \in DOMAIN filters => filters.dateFrom <= apt.startTime
  /\ "dateTo" \in DOMAIN filters => apt.startTime <= filters.dateTo

C20_NoSlotRejected ==
  [][ (DataCalled("createAppointment") /\ NoSlotIn(last'.data)) =>
        /\ last'.thrown
        /\ appointments' = appointments
        /\ ~last'.written /\ file' = file
        /\ NoEvent(dataEmitted', "appointmentCreated") ]_vars

\* a creation without a slot was rejected while the collection held an
\* appointment
C20_Witness ==
  /\ last.op = "createAppointment" /\ NoSlotIn(last.data)
  /\ last.thrown /\ last.error = "TypeError"
  /\ appointments # <<>>

\* C21: every successful createAppointment, updateAppointment,
\* cancelAppointment and saveConversation has written the workbook of the
\* two collections to the file, and emitted dataSaved, when it returns.
C21_MutationsWriteThrough ==
  [][ ((DataCalled("createAppointment") \/ DataCalled("updateAppointment")
        \/ DataCalled("cancelAppointment")
        \/ DataCalled("saveConversation")) /\ ~last'.thrown) =>
        /\ last'.written
        /\ file' = Workbook(appointments', conversations')
        /\ ~NoEvent(dataEmitted', "dataSaved") ]_vars

\* the pieces of a text between the separators of the given characters
RECURSIVE Split(_, _, _)
Split(text, chars, piece) ==
  IF text = <<>> THEN <<piece>>
  ELSE IF IsSeparator(Head(text), chars)
    THEN <<piece>> \o Split(Tail(text), chars, <<>>)
    ELSE Split(Tail(text), chars, Append(piece, Head(text)))

\* the ids of the records a reader of an export finds, in order: the
\* objects of the JSON array, the lines of the text after the header line
\* (lines end at a line feed, the id is the first cell), the rows of the
\* exported sheet
ExportedIds(document) ==
  IF document.format = "json"
    THEN [i \in 1..Len(document.records) |-> document.records[i].id]
  ELSE IF document.format = "csv"
    THEN LET ids(lines) == [i \in 1..Len(lines) |-> lines[i][1].cell]
         IN ids(Tail(Split(document.text, "\n", <<>>)))
    ELSE [i \in 1..Len(document.workbook.rows) |->
            document.workbook.rows[i].id]

\* C22: in each of the three formats an export holds one record per
\* appointment that getAppointments returns for the filters, in the same
\* order.
C22_ExportsHoldTheFilteredSet ==
  [][ DataCalled("exportData") =>
        LET same(list) ==
              ExportedIds(last'.result) = [i \in 1..Len(list) |-> list[i].id]
        IN same(getAppointments(appointments, last'.filters)) ]_vars

\* C23: no operation of the data manager takes an appointment out of the
\* collection: every id in the collection before a step is in it after.
C23_NeverHardDeleted ==
  [][ \A i \in 1..Len(appointments) :
        MapHas(appointments', appointments[i].key) ]_vars

\* a cancelled appointment is still in the collection after a later call
C23_Witness ==
  /\ last.op \in {"saveConversation", "exportData", "createBackup",
                   "updateAppointment", "createAppointment"}
  /\ \E i \in 1..Len(appointments) :
       appointments[i].value.status = "cancelled"

\* C24: when the file write fails in createAppointment or updateAppointment
\* an error event is emitted, the file is as it was, and the collection
\* is the one the call leaves when the write succeeds: the new or updated
\* record is in it.
C24_FailedWriteKeepsMemory ==
  [][ ((DataCalled("createAppointment") \/ DataCalled("updateAppointment"))
        /\ last'.error = "write failed") =>
        /\ ~NoEvent(dataEmitted', "error")
        /\ file' = file
        /\ appointments' =
             IF last'.op = "createAppointment"
               THEN createAppointment(appointments, last'.data, now,
                                      technicians, TRUE).appointments
               ELSE updateAppointment(appointments, last'.id, last'.updates,
                                      now, TRUE).appointments
        /\ MapHas(appointments',
                  IF last'.op = "createAppointment" THEN last'.data.id
                                                    ELSE last'.id) ]_vars

\* a create and an update have each failed to write and left their record
C24_Witness ==
  /\ last.op = "updateAppointment" /\ last.error = "write failed"
  /\ MapGet(appointments, last.id).updatedAt = now - CallLatencyMs
  /\ file = createNewExcelFile

\* ------------------------------------------------------------------------
\* The transport entry points of the server: POST /api/conversation and the
\* socket event chatMessage, with payloads that lack a field
\* ------------------------------------------------------------------------
\* the session id of a payload without one: the key undefined
NoSessionId == 0

\* !sessionId || !message
Missing(sessionId, message) ==
  \/ sessionId = NoSessionId
  \/ message = UndefinedMessage
  \/ (IsString(message) /\ message.chars = <<>>)

TransportSessionIds == {1, NoSessionId}
TransportMessages ==
  {Str(S_start), Str(S_Deutsch), Str(<<>>), UndefinedMessage}

\* POST /api/conversation: 400 when a field is missing, else processMessage
PostConversation(sessionId, message) ==
  IF Missing(sessionId, message)
    THEN /\ calls < MaxCalls
         /\ calls' = calls + 1
         /\ last' = [op |-> "postConversation", sessionId |-> sessionId,
                     message |-> message, status |-> 400]
         /\ emitted' = <<>>
         /\ dataEmitted' = <<>>
         /\ UNCHANGED <<sessions, now, errorListener, appointments,
                        conversations, file, backups, pending, created>>
    ELSE Processed("postConversation", sessionId, message)

\* socket.on('chatMessage'): the payload goes to processMessage as it is
ChatMessage(sessionId, message) ==
  Processed("chatMessage", sessionId, message)

TransportNext ==
  \/ \E sessionId \in TransportSessionIds, message \in TransportMessages :
       PostConversation(sessionId, message)
  \/ \E sessionId \in TransportSessionIds, message \in TransportMessages :
       ChatMessage(sessionId, message)
  \/ Tick

TransportSpec == Init /\ [][TransportNext]_vars

\* C25: a chat message without a session id or without a message changes
\* no session and creates none, on either entry point, and nothing of it
\* is processed.
C25_MissingInputChangesNothing ==
  [][ (calls' # calls /\ Missing(last'.sessionId, last'.message)) =>
        sessions' = sessions /\ emitted' = <<>> ]_vars

\* what C26 says of the call that has just been processed in REMINDER_SETUP
ReminderSetUp ==
  /\ Current.state = "MANAGEMENT"
  /\ "reminderEnabled" \in DOMAIN Current.context
  /\ (Emitted("reminderScheduled", last.sessionId) # {})
       <=> (Current.context.reminderEnabled = TRUE)
  /\ \A i \in Emitted("reminderScheduled", last.sessionId) :
       /\ MapHas(created, last.sessionId)
       /\ emitted[i].appointmentId = MapGet(created, last.sessionId)

LoopMessages == {Str(S_start), Str(S_JA), Str(S_Nein), NumberMessage}

\* last.sequential is the store that processing the messages dispatched so
\* far one after the other, in the order they arrived, leaves
LoopInit ==
  /\ errorListener \in BOOLEAN
  /\ sessions \in {<<>>, BookingStore(errorListener)}
  /\ calls = 0
  /\ now = StartInstant
  /\ emitted = <<>>
  /\ last = [op |-> "", sequential |-> sessions]
  /\ created = <<>>
  /\ DataStart

\* a message is dispatched: processMessage is called and runs to its await
Dispatch(sessionId, message) ==
  /\ calls < MaxCalls
  /\ calls' = calls + 1
  /\ \E draw \in Draws(SlotIdDraws, InState(sessions, sessionId, "CONSENT")),
        suffix \in Draws(Suffixes, InState(sessions, sessionId, "CONFIRMATION")),
        r \in Draws(RandomValues, InState(sessions, sessionId, "CONFIRMATION")) :
       \E res \in {processMessageSync(sessions, sessionId, message, now, draw,
                                       suffix, r, technicians)} :
         /\ sessions' = res.store
         /\ emitted' = res.emitted
         /\ created' = Recorded(created, res.emitted)
         /\ pending' = IF res.awaiting
                          THEN Append(pending,
                                      [sessionId |-> sessionId,
                                       raised |-> res.raised,
                                       response |-> res.response])
                          ELSE pending
         /\ last' = [op |-> "dispatch", sessionId |-> sessionId,
                     message |-> message,
                     sequential |->
                       processMessage(last.sequential, sessionId, message,
                                      now, draw, suffix, r, technicians,
                                      errorListener).store]
  /\ dataEmitted' = <<>>
  /\ UNCHANGED <<now, errorListener, appointments, conversations, file,
                 backups>>

\* the call that suspended first resumes
Resume ==
  /\ pending # <<>>
  /\ \E res \in {processMessageResume(sessions, Head(pending).sessionId,
                                       Head(pending), errorListener)} :
       /\ sessions' = res.store
       /\ emitted' = res.emitted
       /\ last' = [last EXCEPT !.op = "resume"]
  /\ pending' = Tail(pending)
  /\ dataEmitted' = <<>>
  /\ UNCHANGED <<now, errorListener, calls, appointments, conversations,
                 file, backups, created>>

LoopNext ==
  \/ \E sessionId \in SessionIds, message \in LoopMessages :
       Dispatch(sessionId, message)
  \/ Resume

LoopSpec == LoopInit /\ [][LoopNext]_vars

\* C27: once every call has returned, the sessions are as processing the
\* messages one after the other in arrival order leaves them: no call has
\* seen a session on which an earlier one had applied part of its effects.
C27_ProcessedEndToEnd ==
  (pending = <<>> /\ last.op = "resume") => sessions = last.sequential

\* ------------------------------------------------------------------------
\* The data manager with calls in flight at once: createAppointment and
\* updateAppointment set the record, saveToExcel builds its workbook from
\* the collections as they are at that moment, and the call then waits
\* for writeFile; the writes of the calls in flight finish in any order,
\* each replacing the file with the workbook of its call.
\* ------------------------------------------------------------------------
WriteInit ==
  /\ DataStart
  /\ sessions = <<>>
  /\ errorListener = TRUE
  /\ emitted = <<>>
  /\ calls = 0
  /\ now = StartInstant
  /\ last = [op |-> "", failed |-> FALSE]
  /\ created = <<>>

\* a mutating call has run up to 'await workbook.xlsx.writeFile(...)', or
\* has rejected before it; res is what the call leaves when its write
\* succeeds, lost what it emits when the write fails
Begun(op, res, lost) ==
  /\ appointments' = res.appointments
  /\ pending' = IF res.thrown THEN pending
                ELSE Append(pending,
                            [op |-> op,
                             workbook |-> Workbook(res.appointments,
                                                   conversations),
                             saved |-> res.emitted, lost |-> lost])
  /\ dataEmitted' = IF res.thrown THEN res.emitted ELSE <<>>
  /\ last' = [op |-> op, failed |-> last.failed]
  /\ calls' = calls + 1
  /\ now' = now + CallLatencyMs
  /\ UNCHANGED <<conversations, file, backups>>
  /\ UNCHANGED <<sessions, errorListener, emitted, created>>

BeginCreateAppointment ==
  /\ calls < MaxDataCalls
  /\ \E appointmentData \in AppointmentInputs :
       Begun("createAppointment",
             createAppointment(appointments, appointmentData, now,
                               technicians, TRUE),
             createAppointment(appointments, appointmentData, now,
                               technicians, FALSE).emitted)

BeginUpdateAppointment ==
  /\ calls < MaxDataCalls
  /\ \E appointmentId \in AppointmentIds, updates \in Patches :
       Begun("updateAppointment",
             updateAppointment(appointments, appointmentId, updates, now,
                               TRUE),
             updateAppointment(appointments, appointmentId, updates, now,
                               FALSE).emitted)

\* the write of one of the calls in flight finishes, and the call returns
CompleteWrite ==
  \E i \in 1..Len(pending), writeOk \in BOOLEAN :
    /\ file' = IF writeOk THEN pending[i].workbook ELSE file
    /\ dataEmitted' = IF writeOk THEN pending[i].saved ELSE pending[i].lost
    /\ pending' = SubSeq(pending, 1, i - 1)
                    \o SubSeq(pending, i + 1, Len(pending))
    /\ last' = [op |-> "writeFile", failed |-> last.failed \/ ~writeOk]
    /\ UNCHANGED <<appointments, conversations, backups, calls, now>>
    /\ UNCHANGED <<sessions, errorListener, emitted, created>>

WriteNext ==
  \/ BeginCreateAppointment
  \/ BeginUpdateAppointment
  \/ CompleteWrite

WriteSpec == WriteInit /\ [][WriteNext]_vars

\* C28: once every call in flight has returned, none of them with a failed
\* write, the file holds the workbook of the collection as it is in
\* memory.
C28_AcknowledgedIsDurable ==
  (pending = <<>> /\ last.op = "writeFile" /\ ~last.failed) =>
    file = Workbook(appointments, conversations)

\* C29: after every processMessage call that returned a response, the
\* state of the response is the state the session is stored with.
C29_ResponseStateIsSessionState ==
  (Called /\ ~last.thrown) => last.response.state = Current.state

\* ------------------------------------------------------------------------
\* A client that answers with the quick replies it is offered, in each of
\* the three languages
\* ------------------------------------------------------------------------
\* the quick replies a session's state offers: those of the response that
\* took the session into the state
Offered(session) ==
  IF session.state = "LANGUAGE_SELECTION" THEN LanguageLabels
  ELSE IF session.state = "CONSENT"
    THEN getLocalizedQuickReplies("consent", session.language)
  ELSE IF session.state = "SLOT_SELECTION"
    THEN Displays(session.context.availableSlots, session.language)
  ELSE IF session.state = "CONFIRMATION"
    THEN getLocalizedQuickReplies("confirmation", session.language)
  ELSE IF session.state = "REMINDER_SETUP"
    THEN getLocalizedQuickReplies("reminder", session.language)
  ELSE IF session.state = "MANAGEMENT"
    THEN getLocalizedQuickReplies("management", session.language)
  ELSE <<>>

\* the store once session 1 has answered the given number of prompts with
\* the first reply offered, the language prompt with the given label
RECURSIVE LabelStore(_, _)
LabelStore(label, answered) ==
  IF answered = 0
    THEN After(<<>>, 1, <<Str(S_start)>>, StartInstant, TRUE)
    ELSE LET next(store) ==
               After(store, 1,
                     <<Str(IF answered = 1 THEN label
                                           ELSE Offered(Get(store, 1))[1])>>,
                     StartInstant, TRUE)
         IN next(LabelStore(label, answered - 1))

\* session 1 at the language prompt, or in one of the languages at the
\* consent prompt, the slot list or the confirmation
LabelInit ==
  /\ errorListener = TRUE
  /\ sessions \in {LabelStore(LanguageLabels[l], answered) :
                      l \in 1..Len(LanguageLabels), answered \in 0..3}
  /\ calls = 0
  /\ now = StartInstant
  /\ emitted = <<>>
  /\ last = NoCall
  /\ created = <<>>
  /\ DataStart

\* the client sends back one of the replies the state of its session offers
SendLabel ==
  \E k \in 1..Len(Offered(Get(sessions, 1))) :
    Processed("sendLabel", 1, Str(Offered(Get(sessions, 1))[k]))

LabelNext == SendLabel

LabelSpec == LabelInit /\ [][LabelNext]_vars

\* the responses with which a state asks again
RePrompts ==
  {getLocalizedMessage(key, "es") :
     key \in {"language_error", "consent_required", "invalid_slot",
              "confirmation_required", "management_help"}}

\* C30: a quick reply of the state, sent back as it is, is not answered
\* with the state's re-prompt; in CONFIRMATION the first reply is taken as
\* a yes (the appointment is confirmed) and the second and the third as a
\* no (the slots are offered again).
C30_OfferedRepliesRecognised ==
  [][ (calls' # calls /\ last'.op = "sendLabel") =>
        /\ last'.response.bot \notin RePrompts
        /\ last'.stateBefore = "CONFIRMATION" =>
             LET replies == Offered(Get(sessions, 1))
             IN /\ (last'.message.chars = replies[1])
                     => isPositiveResponse(replies[1],
                                           Get(sessions, 1).language)
                /\ (last'.message.chars \in {replies[2], replies[3]})
                     => /\ ~isPositiveResponse(last'.message.chars,
                                                Get(sessions, 1).language)
                        /\ isNegativeResponse(last'.message.chars,
                                               Get(sessions, 1).language)
    ]_vars

\* ------------------------------------------------------------------------
\* A client at the confirmation prompt that answers with the quick replies
\* it is offered and may start over with '/start'
\* ------------------------------------------------------------------------
RebookInit ==
  /\ errorListener = TRUE
  /\ sessions \in {LabelStore(LanguageLabels[l], 3) :
                      l \in 1..Len(LanguageLabels)}
  /\ calls = 0
  /\ now = StartInstant
  /\ emitted = <<>>
  /\ last = NoCall
  /\ created = <<>>
  /\ DataStart

AnswerLabel ==
  \E k \in 1..Len(Offered(Get(sessions, 1))) :
    ProcessedWithin(MaxRebookCalls, "answerLabel", 1,
                    Str(Offered(Get(sessions, 1))[k]))

StartOver ==
  \E message \in {Str(S_start)} :
    ProcessedWithin(MaxRebookCalls, "startOver", 1, message)

RebookNext == AnswerLabel \/ StartOver

RebookSpec == RebookInit /\ [][RebookNext]_vars

\* the call has emitted appointmentCreated for the session
Books(sessionId) ==
  /\ calls' # calls
  /\ \E i \in 1..Len(emitted') :
       /\ emitted'[i].name = "appointmentCreated"
       /\ emitted'[i].sessionId = sessionId

\* C31: a session produces at most one appointment: appointmentCreated is
\* not emitted for a session for which it has been emitted before, whatever
\* the messages, '/start' included.
C31_AtMostOneAppointment ==
  [][ \A sessionId \in SessionIds :
        Books(sessionId) => ~MapHas(created, sessionId) ]_vars

\* the appointment the data manager holds under the id in the context of
\* the session the last call was for
Stored == MapGet(appointments, Current.context.appointmentId)

\* C32: when processMessage returns from an affirmative CONFIRMATION, the
\* data manager's collection holds an appointment under the id in the
\* session's context: confirmed, of that session, from the start to the end
\* of the selected slot, with the technician in the context.
C32_ConfirmedAppointmentIsStored ==
  (Called /\ last.stateBefore = "CONFIRMATION"
     /\ Affirmative(last.message, Current.language)) =>
    /\ "appointmentId" \in DOMAIN Current.context
    /\ MapHas(appointments, Current.context.appointmentId)
    /\ Stored.id = Current.context.appointmentId
    /\ Stored.status = "confirmed"
    /\ Stored.sessionId = Current.id
    /\ Stored.startTime = Current.context.selectedSlot.start
    /\ Stored.endTime = Current.context.selectedSlot.end
    /\ Stored.technician = Current.context.technician

\* an affirmative confirmation has been processed, and the write of the
\* file that followed it has failed
C32_Witness ==
  /\ Called /\ last.stateBefore = "CONFIRMATION"
  /\ Affirmative(last.message, Current.language)
  /\ MapHas(appointments, Current.context.appointmentId)
  /\ file = createNewExcelFile

\* C33: the stored appointment reflects the session's reminder choice:
\* once REMINDER_SETUP has been answered affirmatively (reminderEnabled is
\* true in the context and reminderScheduled was emitted), the appointment
\* held under the context's appointment id has reminderEnabled = true and
\* is counted by the withReminder statistic.
C33_StoredAppointmentHasReminder ==
  (Called /\ last.stateBefore = "REMINDER_SETUP"
     /\ Affirmative(last.message, Current.language)
     /\ Current.context.reminderEnabled = TRUE
     /\ Emitted("reminderScheduled", last.sessionId) # {}) =>
    /\ MapHas(appointments, Current.context.appointmentId)
    /\ Stored.reminderEnabled = TRUE
    /\ generateStats(MapValues(appointments),
                     MapValues(conversations)).appointments.withReminder >= 1

\* ------------------------------------------------------------------------
\* The appointments of the data manager under create, update and cancel,
\* where the body of PUT /api/appointments/:id may name any field of the
\* record
\* ------------------------------------------------------------------------
AnyPatches ==
  Patches \cup {[id |-> id] : id \in AppointmentIds}
          \cup {[status |-> "completed"], [reminderEnabled |-> TRUE]}

PatchAppointment == UpdatedWith(AnyPatches)

\* a second data manager is constructed on the data file and loads it
LoadExistingData ==
  /\ calls < MaxDataCalls
  /\ last' = [op |-> "loadExistingData", thrown |-> FALSE,
              loaded |-> loadExistingData(file)]
  /\ dataEmitted' = <<>>
  /\ calls' = calls + 1
  /\ now' = now + CallLatencyMs
  /\ UNCHANGED <<appointments, conversations, file, backups, pending>>
  /\ UNCHANGED <<sessions, errorListener, emitted, created>>

PatchNext ==
  \/ CreateAppointment
  \/ PatchAppointment
  \/ CancelAppointment
  \/ LoadExistingData

PatchSpec == DataInit /\ [][PatchNext]_vars

\* C34: every entry of the appointments collection is held under a key
\* equal to the id of its record, so that getAppointment(x) never returns
\* a record whose id is not x.
C34_KeyIsRecordId ==
  /\ \A i \in 1..Len(appointments) :
       appointments[i].value.id = appointments[i].key
  /\ \A x \in AppointmentIds :
       MapHas(appointments, x) => getAppointment(appointments, x).id = x

\* C35: the file mirrors the appointment collection: once the collection
\* has been saved, a data manager that loads the file holds for every
\* appointment id a record with the technician, the status, the language
\* and the notes of the record that was saved.
C35_LoadRestoresWhatWasSaved ==
  (last.op = "loadExistingData"
     /\ file = Workbook(appointments, conversations)) =>
    \A i \in 1..Len(appointments) :
      /\ MapHas(last.loaded, appointments[i].key)
      /\ MapGet(last.loaded, appointments[i].key).technician
           = appointments[i].value.technician
      /\ MapGet(last.loaded, appointments[i].key).status
           = appointments[i].value.status
      /\ MapGet(last.loaded, appointments[i].key).language
           = appointments[i].value.language
      /\ MapGet(last.loaded, appointments[i].key).notes
           = appointments[i].value.notes

\* the call has emitted sessionCompleted for the session
Completes(sessionId) ==
  /\ calls' # calls
  /\ \E i \in 1..Len(emitted') :
       /\ emitted'[i].name = "sessionCompleted"
       /\ emitted'[i].sessionId = sessionId

\* the session in the store has been announced as completed before: the
\* server's listener has saved its conversation summary
Summarised(sessionId) ==
  /\ Has(sessions, sessionId)
  /\ MapHas(conversations, sessionId)
  /\ MapGet(conversations, sessionId).startTime
       = Get(sessions, sessionId).startTime

\* C36: sessionCompleted is emitted at most once per session: no message,
\* before or after the session has reached COMPLETED, has it emitted for a
\* session whose completion has been announced already.
C36_CompletedAnnouncedOnce ==
  [][ \A sessionId \in SessionIds :
        Completes(sessionId) => ~Summarised(sessionId) ]_vars

\* the flag of the session agrees with its state
FlagAgrees(session) ==
  (session.completed = TRUE) <=> (session.state = "COMPLETED")

\* C37: completed is a terminal flag that agrees with the state: in every
\* session of the store completed is true exactly when the state is
\* COMPLETED, and a session whose flag is true keeps its state for as long
\* as it is in the store.
C37_CompletedIsTerminal ==
  [][ /\ \A i \in 1..Len(sessions') : FlagAgrees(sessions'[i])
      /\ \A sessionId \in SessionIds :
           (/\ Has(sessions, sessionId)
            /\ Get(sessions, sessionId).completed = TRUE
            /\ Has(sessions', sessionId)
            /\ Get(sessions', sessionId).startTime
                 = Get(sessions, sessionId).startTime)
             => Get(sessions', sessionId).state
                  = Get(sessions, sessionId).state ]_vars

\* the statuses generateStats counts
CountedStatuses == <<"confirmed", "pending", "cancelled", "completed">>

\* what C38 says of the statistics of a collection of appointments
StatsAddUp(map) ==
  LET holding(status) ==
        Cardinality({i \in 1..Len(map) : map[i].value.status = status})
      adds(stats) ==
        /\ stats.total = stats.confirmed + stats.pending + stats.cancelled
                           + stats.completed
        /\ \A k \in 1..Len(CountedStatuses) :
             stats[CountedStatuses[k]] = holding(CountedStatuses[k])
  IN adds(generateStats(MapValues(map), <<>>).appointments)

\* C38: whatever the data manager has loaded, created, updated and
\* cancelled, generateStats reports a total equal to confirmed + pending +
\* cancelled + completed, and each of the four counts is the number of
\* appointments that hold the status.
C38_StatsAddUp ==
  /\ StatsAddUp(appointments)
  /\ last.op = "loadExistingData" => StatsAddUp(last.loaded)

\* the context has what the handler of the session's state reads
ContextReady(session) ==
  /\ session.state \in {"SLOT_SELECTION", "CONFIRMATION"} =>
       "availableSlots" \in DOMAIN session.context
  /\ session.state = "CONFIRMATION" =>
       /\ "selectedSlot" \in DOMAIN session.context
       /\ \E k \in 1..Len(session.context.availableSlots) :
            session.context.availableSlots[k] = session.context.selectedSlot

\* C39: a session in SLOT_SELECTION or CONFIRMATION has its available
\* slots in the context, and one in CONFIRMATION has a selected slot that
\* is one of them; so the handlers of the two states do not fault on a
\* string message, whatever was sent before, '/start' and the deletion of
\* the data included.
C39_ContextReady ==
  /\ \A i \in 1..Len(sessions) : ContextReady(sessions[i])
  /\ (last.op \in {"processMessage", "answerLabel", "startOver"}
        /\ last.stateBefore \in {"SLOT_SELECTION", "CONFIRMATION"}
        /\ IsString(last.message)) => ~last.raised

\* a session that has started over from the confirmation prompt and has
\* had its data deleted at the consent prompt has picked a slot again and
\* has confirmed it
C39_Witness ==
  /\ last.op = "answerLabel" /\ last.stateBefore = "CONFIRMATION"
  /\ ~last.raised
  /\ Current.state = "REMINDER_SETUP"
  /\ Len(Current.messageHistory) <= 7

====
